---- MODULE Spec2Model ----
(***************************************************************************)
(* Model of the citizen report store of IslandGuard                        *)
(* (src/src/citizen_alerts.py): a JSON file holding the list of reports,   *)
(* rewritten whole by save_alert and clear_old_alerts and read whole by    *)
(* load_alerts.  Sessions (Streamlit script runs) call the functions       *)
(* concurrently; no function takes a lock, so every file operation is a    *)
(* step of its own.  With it, the resilience scoring of                    *)
(* src/src/resilience.py: calculate_resilience, get_resilience_category,   *)
(* calculate_resilience_batch and simulate_cyclone_impact, functions of     *)
(* floats and of pandas DataFrames.                                        *)
(***************************************************************************)
EXTENDS Integers, Sequences, FiniteSets, TLC

(* ------------------------------ bounds -------------------------------- *)

\* The clock advances at most MaxTicks times, an hour at a time.
MaxTicks == 2
\* save_alert calls started in a run of the concurrent specification.
MaxAppends == 2
\* save_alert calls started in a run of the sequential specification.
MaxAppendsSeq == 2
\* The rows of the DataFrame a caller hands to the scoring functions.
MaxRows == 2
\* Features of the GeoJSON file and rows of the CSV file.
MaxFeatures == 3
MaxScoreRows == 3
\* Calls of get_advice_for_location on one SecurityAdvisor.
MaxCalls == 2

(* ----------------------------- constants ------------------------------ *)

\* hours * 3600 in clear_old_alerts.
SecondsPerHour == 3600
\* The model's clock advances by an hour at a time.
TickSeconds == SecondsPerHour

Procs == {1, 2}
Regions == {"r1", "r2"}
\* 'danger' and 'safe' are what the dashboard's buttons send; "other"
\* stands for any other string a caller of save_alert passes.
Kinds == {"danger", "safe", "other"}
Hours == {0, 1}
\* region_id columns of the data frames handed to get_all_alerts_summary.
Frames == {<<>>, <<"r1">>, <<"r1", "r2">>, <<"r2", "r1", "r2">>}

VARIABLES
    file,        \* data/alerts.json
    clock,       \* datetime.now(), in seconds
    pc,          \* where each session is in the function it called
    call,        \* the function each session called, with its arguments
    locals,      \* the local variables of the call
    ret,         \* what the call returned (at pc = "done")
    nAppends,    \* history: save_alert calls started
    calls,       \* history: per function, whether it was called (1, or 2: more than once)
    nAcked,      \* history: save_alert calls that returned True
    lastGood,    \* history: the last complete list the file held
    cand,        \* history: per reading call, the complete lists the file held during it
    seen,        \* history: the list in the file when the last call returned
    sincePrune,  \* history: the last clear_old_alerts return, until the next save_alert
    dataframes,  \* the DataFrame objects: the caller's df and the copies made of it
    scoring,     \* the last call of a function of resilience.py, with its result
    prevSim,     \* history: the simulate_cyclone_impact call before the last, on the same df
    datafiles,   \* data/mauritius_regions.geojson and data/resilience_scores.csv
    loading,     \* the last call of merge_data or load_base_data, with its result
    advisor,     \* the SecurityAdvisor object and its last get_advice_for_location call
    reporter,    \* the ReportAI object and its last generate_security_advice call
    cdist        \* scipy's cdist on the points met, each distance computed once

vars == <<file, clock, pc, call, locals, ret, nAppends, calls, nAcked,
          lastGood, cand, seen, sincePrune, dataframes, scoring, prevSim,
          datafiles, loading, advisor, reporter, cdist>>

\* The state of the report store and the state of the scoring functions.
storeVars == <<file, clock, pc, call, locals, ret, nAppends, calls, nAcked,
               lastGood, cand, seen, sincePrune>>
scoreVars == <<dataframes, scoring, prevSim>>
\* The data files and the state of the loader; the two advisors.
loadVars == <<datafiles, loading>>
aiVars == <<advisor, reporter, cdist>>

(* --------------------------- pure functions --------------------------- *)

\* datetime.isoformat() of a clock reading: the fields of the local time.
\* The local UTC offset is fixed (no daylight saving change in the run).
IsoFormat(t) == [hour |-> t \div SecondsPerHour, second |-> t % SecondsPerHour]

\* datetime.fromisoformat(s).timestamp()
FromIsoFormat(s) == s.hour * SecondsPerHour + s.second

\* f"{region_id}_{datetime.now().timestamp()}": the region and the reading;
\* the text after the last underscore is the reading, so the pair is the id.
MakeId(region_id, t) == <<region_id, t>>

NewAlert(id, region_id, alert_type, t) ==
    [id |-> id, region_id |-> region_id, type |-> alert_type,
     timestamp |-> IsoFormat(t)]

None == "None"

RECURSIVE Gcd(_, _)
Gcd(a, b) == IF b = 0 THEN a ELSE Gcd(b, a % b)

\* A float quotient n / d, as the fraction in lowest terms; 0 is 0/1.
Ratio(n, d) == IF n = 0 THEN <<0, 1>> ELSE <<n \div Gcd(n, d), d \div Gcd(n, d)>>

RegionAlertStats(alerts, region_id) ==
    LET region_alerts == SelectSeq(alerts, LAMBDA a : a.region_id = region_id)
        danger == Len(SelectSeq(region_alerts, LAMBDA a : a.type = "danger"))
        safe   == Len(SelectSeq(region_alerts, LAMBDA a : a.type = "safe"))
        total  == Len(region_alerts)
    IN [danger_count |-> danger,
        safe_count   |-> safe,
        total_count  |-> total,
        danger_ratio |-> IF total > 0 THEN Ratio(danger, total) ELSE Ratio(0, 1)]

\* df['region_id'].unique(): the values in order of first appearance.
RECURSIVE Unique(_)
Unique(s) ==
    IF s = <<>> THEN <<>>
    ELSE LET u == Unique(SubSeq(s, 1, Len(s) - 1))
             x == s[Len(s)]
         IN IF \E i \in 1..Len(u) : u[i] = x THEN u ELSE Append(u, x)

\* SummaryEntry with the total taken from the danger count.
SummaryEntryTotalFromDanger(region_id, stats) ==
    [region_id            |-> region_id,
     citizen_danger       |-> stats.danger_count,
     citizen_safe         |-> stats.safe_count,
     citizen_total        |-> stats.danger_count,
     citizen_danger_ratio |-> stats.danger_ratio]

SummaryEntry(region_id, stats) ==
    [region_id            |-> region_id,
     citizen_danger       |-> stats.danger_count,
     citizen_safe         |-> stats.safe_count,
     citizen_total        |-> stats.total_count,
     citizen_danger_ratio |-> stats.danger_ratio]

\* df.merge(pd.DataFrame(alerts_data), on='region_id', how='left').fillna(0):
\* one row per row of df, in df's order; a frame built from no entry has no
\* region_id column and the merge raises KeyError.
MergeSummary(df, alerts_data) ==
    IF alerts_data = <<>> THEN [raised |-> "KeyError", rows |-> <<>>]
    ELSE [raised |-> None,
          rows |-> [i \in 1..Len(df) |->
            IF \E j \in 1..Len(alerts_data) : alerts_data[j].region_id = df[i]
            THEN alerts_data[CHOOSE j \in 1..Len(alerts_data) :
                                alerts_data[j].region_id = df[i]]
            ELSE SummaryEntry(df[i], [danger_count |-> 0, safe_count |-> 0,
                                      total_count |-> 0, danger_ratio |-> Ratio(0, 1)])]]

Cutoff(now, hours) == now - hours * SecondsPerHour

FilterRecent(alerts, cutoff) ==
    SelectSeq(alerts, LAMBDA a : FromIsoFormat(a.timestamp) > cutoff)

\* ClearedCount returning the number of reports kept.
ClearedCountKept(alerts, filtered) == Len(filtered)

\* len(alerts) - len(filtered)
ClearedCount(alerts, filtered) == Len(alerts) - Len(filtered)

(* ------------------------ binary64 arithmetic ------------------------- *)

\* The arguments of the scoring functions count halves (exposure 141 is
\* 70.5) and their results count hundredths (5550 is 55.5).
HalvesPerUnit == 2
HundredthsPerUnit == 100

\* The arithmetic of resilience.py is that of Python floats (IEEE 754
\* binary64): every operation returns the float nearest to the exact result,
\* ties to even.  A magnitude is a natural number written in NumLimbs limbs
\* of LimbBits bits, least significant first; the magnitudes of the scoring
\* functions count units of 2^-57, three limbs of fraction and one of integer
\* part, fine enough for every float the functions meet on arguments that
\* are multiples of 1/2 up to a few hundreds.
LimbBits == 19
NumLimbs == 4
LimbBase == 2^LimbBits
\* Bits in the significand of a float.
SignificandBits == 53

Zero4 == <<0, 0, 0, 0>>

\* Carry propagation over limbs that may exceed the base.
Norm(s) ==
    LET t1 == s[1]
        t2 == s[2] + t1 \div LimbBase
        t3 == s[3] + t2 \div LimbBase
        t4 == s[4] + t3 \div LimbBase
    IN <<t1 % LimbBase, t2 % LimbBase, t3 % LimbBase, t4>>

BAdd(a, b) == Norm(<<a[1] + b[1], a[2] + b[2], a[3] + b[3], a[4] + b[4]>>)

\* a - b for a >= b: the borrows are paid back by the next limb.
BSub(a, b) ==
    Norm(<<a[1] - b[1] + LimbBase,
           a[2] - b[2] + LimbBase - 1,
           a[3] - b[3] + LimbBase - 1,
           a[4] - b[4] - 1>>)

BLess(a, b) ==
    \E i \in 1..NumLimbs :
       a[i] < b[i] /\ \A j \in (i + 1)..NumLimbs : a[j] = b[j]

\* a * c for a small natural c.
MulSmall(a, c) == Norm(<<a[1] * c, a[2] * c, a[3] * c, a[4] * c>>)

\* floor(a / d) and whether a remainder is left, for a small natural d.
DivSmall(a, d) ==
    LET q4 == a[4] \div d
        r4 == a[4] % d
        q3 == (r4 * LimbBase + a[3]) \div d
        r3 == (r4 * LimbBase + a[3]) % d
        q2 == (r3 * LimbBase + a[2]) \div d
        r2 == (r3 * LimbBase + a[2]) % d
        q1 == (r2 * LimbBase + a[1]) \div d
        r1 == (r2 * LimbBase + a[1]) % d
    IN [quot |-> <<q1, q2, q3, q4>>, inexact |-> r1 # 0]

RECURSIVE Bits(_)
Bits(n) == IF n = 0 THEN 0 ELSE 1 + Bits(n \div 2)

BitLen(a) ==
    IF a[4] # 0 THEN 3 * LimbBits + Bits(a[4])
    ELSE IF a[3] # 0 THEN 2 * LimbBits + Bits(a[3])
    ELSE IF a[2] # 0 THEN LimbBits + Bits(a[2])
    ELSE Bits(a[1])

\* Round to nearest, ties to even, to SignificandBits significant bits: the
\* rounding of every binary64 operation.  sticky: the exact value is a bit
\* more than a.  The bits dropped lie in the lowest limb.
Round53(a, sticky) ==
    LET s == BitLen(a) - SignificandBits
    IN IF s <= 0 THEN a
       ELSE LET unit == 2^s
                low  == a[1] % unit
                odd  == (a[1] \div unit) % 2 = 1
                up   == \/ 2 * low > unit
                        \/ 2 * low = unit /\ (sticky \/ odd)
            IN Norm(<<a[1] - low + (IF up THEN unit ELSE 0), a[2], a[3], a[4]>>)

\* k * 2^56: the float k/2 in units of 2^-57, and the natural k in units
\* of 2^-56.
Shifted(k) == Norm(<<0, 0, k * (LimbBase \div 2), 0>>)

\* The float nearest to num/den, in units of 2^-56 (den > 2 * num, so that
\* more than SignificandBits bits are computed).
FloatOfRatio(num, den) ==
    LET d == DivSmall(Shifted(num), den)
    IN Round53(d.quot, d.inexact)

\* A float: sign and magnitude in units of 2^-57.
FZero == [neg |-> FALSE, mag |-> Zero4]

\* The float k/2 (exact).
FromHalves(k) ==
    IF k = 0 THEN FZero
    ELSE [neg |-> k < 0, mag |-> Shifted(IF k < 0 THEN -k ELSE k)]

FNeg(x) == IF x.mag = Zero4 THEN x ELSE [x EXCEPT !.neg = ~ x.neg]

\* x + y, rounded.
FAdd(x, y) ==
    IF x.neg = y.neg
    THEN [neg |-> x.neg, mag |-> Round53(BAdd(x.mag, y.mag), FALSE)]
    ELSE IF x.mag = y.mag THEN FZero
    ELSE IF BLess(x.mag, y.mag)
         THEN [neg |-> y.neg, mag |-> Round53(BSub(y.mag, x.mag), FALSE)]
         ELSE [neg |-> x.neg, mag |-> Round53(BSub(x.mag, y.mag), FALSE)]

FSub(x, y) == FAdd(x, FNeg(y))

FLess(x, y) ==
    IF x.neg # y.neg THEN x.neg
    ELSE IF x.neg THEN BLess(y.mag, x.mag) ELSE BLess(x.mag, y.mag)

\* w * (k/2), rounded, for a weight w in units of 2^-56.
FMulWeight(w, k) ==
    IF k = 0 THEN FZero
    ELSE [neg |-> k < 0,
          mag |-> Round53(MulSmall(w, IF k < 0 THEN -k ELSE k), FALSE)]

\* The nearest integer, ties to even, of a magnitude in units of 2^-57.
NearestInt(a) ==
    LET frac == <<a[1], a[2], a[3], 0>>
        half == <<0, 0, LimbBase \div 2, 0>>
    IN IF BLess(half, frac) \/ (frac = half /\ a[4] % 2 = 1)
       THEN a[4] + 1 ELSE a[4]

\* round(x, 2) of Python for 0 <= x <= 100, as a number of hundredths: the
\* decimal nearest to the exact value of the float.
PyRound2(x) == NearestInt(MulSmall(x.mag, HundredthsPerUnit))

\* Series.round(2) of numpy for 0 <= x <= 100, as a number of hundredths:
\* rint(x * 100.0) / 100.0, the product being rounded to a float first.
NpRound2(x) ==
    NearestInt(Round53(MulSmall(x.mag, HundredthsPerUnit), FALSE))

(* ------------------------- resilience scoring ------------------------- *)

\* utils.config.RESILIENCE_WEIGHTS, as floats in units of 2^-56.
RESILIENCE_WEIGHTS ==
    [exposure      |-> FloatOfRatio(45, 100),
     vulnerability |-> FloatOfRatio(35, 100),
     adaptation    |-> FloatOfRatio(20, 100)]

\* The float 100.
FHundred == FromHalves(100 * HalvesPerUnit)

\* w_e * exposure + w_v * vulnerability - w_a * adaptation, each operation
\* rounded as a float operation; the arguments count halves.
CompositeRisk(exposure, vulnerability, adaptation) ==
    FSub(FAdd(FMulWeight(RESILIENCE_WEIGHTS.exposure, exposure),
              FMulWeight(RESILIENCE_WEIGHTS.vulnerability, vulnerability)),
         FMulWeight(RESILIENCE_WEIGHTS.adaptation, adaptation))

\* Clip without the bounds.
ClipNothing(x) == x

\* max(0, min(100, x)), and Series.clip(0, 100)
Clip(x) ==
    IF FLess(FHundred, x) THEN FHundred
    ELSE IF FLess(x, FZero) THEN FZero
    ELSE x

\* calculate_resilience
CalculateResilience(exposure, vulnerability, adaptation) ==
    LET composite_risk == CompositeRisk(exposure, vulnerability, adaptation)
        resilience_index == FSub(FHundred, composite_risk)
    IN PyRound2(Clip(resilience_index))

\* utils.config.RESILIENCE_THRESHOLDS, in the dictionary's order.
RESILIENCE_THRESHOLDS ==
    <<[category |-> "low",    min_val |-> 0,  max_val |-> 40],
      [category |-> "medium", min_val |-> 40, max_val |-> 70],
      [category |-> "high",   min_val |-> 70, max_val |-> 100]>>

\* A categorisation whose last resort is the highest tier.
GetResilienceCategoryElseHigh(score) ==
    LET matches == {i \in 1..Len(RESILIENCE_THRESHOLDS) :
                      /\ RESILIENCE_THRESHOLDS[i].min_val * HundredthsPerUnit <= score
                      /\ score < RESILIENCE_THRESHOLDS[i].max_val * HundredthsPerUnit}
    IN IF matches # {}
       THEN RESILIENCE_THRESHOLDS[CHOOSE i \in matches :
                                     \A j \in matches : i <= j].category
       ELSE "high"

\* get_resilience_category, of a score in hundredths.
GetResilienceCategory(score) ==
    LET matches == {i \in 1..Len(RESILIENCE_THRESHOLDS) :
                      /\ RESILIENCE_THRESHOLDS[i].min_val * HundredthsPerUnit <= score
                      /\ score < RESILIENCE_THRESHOLDS[i].max_val * HundredthsPerUnit}
    IN IF matches # {}
       THEN RESILIENCE_THRESHOLDS[CHOOSE i \in matches :
                                     \A j \in matches : i <= j].category
       ELSE IF score = 100 * HundredthsPerUnit THEN "high"
       ELSE "low"

(* ----------------------------- DataFrames ----------------------------- *)

\* A DataFrame object: its columns and its rows; a row holds None in the
\* columns the frame lacks.  exposure, vulnerability and adaptation count
\* halves, resilience_index counts hundredths.
FrameIds == 1..3
\* The DataFrame the caller passes to the functions.
CallerDf == 1

NoFrame == [live |-> FALSE, cols |-> {}, rows |-> <<>>]
NoFrames == [id \in FrameIds |-> NoFrame]

\* Every object but the caller's df is garbage once the caller drops the
\* result of its previous call.
Dropped(fs) == [id \in FrameIds |-> IF id = CallerDf THEN fs[id] ELSE NoFrame]

\* df.copy() handing back df itself.
PdCopyAlias(fs, id) == [frames |-> fs, id |-> id]

\* df.copy(): a new object with the columns and the values of df.
PdCopy(fs, id) ==
    LET new == CHOOSE n \in FrameIds :
                  /\ ~ fs[n].live
                  /\ \A m \in FrameIds : ~ fs[m].live => n <= m
    IN [frames |-> [n \in FrameIds |-> IF n = new THEN fs[id] ELSE fs[n]],
        id |-> new]

\* df[col] = values: the object df refers to gets the column.
SetColumn(fs, id, col, values) ==
    [n \in FrameIds |->
        IF n # id THEN fs[n]
        ELSE [live |-> TRUE,
              cols |-> fs[id].cols \cup {col},
              rows |-> [i \in 1..Len(fs[id].rows) |->
                          [fs[id].rows[i] EXCEPT ![col] = values[i]]]]]

\* A call that hands the caller's df back where it should raise.
RaiseNothing(fs, exception) == [frames |-> fs, raised |-> None, value |-> CallerDf]

\* raise: the call ends with the exception and returns no object.
Raise(fs, exception) == [frames |-> fs, raised |-> exception, value |-> 0]

\* calculate_resilience_batch(df): the frames after the call, the exception
\* raised or None, and the object returned.
CalculateResilienceBatch(fs, df) ==
    LET required_cols == {"exposure", "vulnerability", "adaptation"}
    IN IF ~ (required_cols \subseteq fs[df].cols)
       THEN Raise(fs, "ValueError")
       ELSE LET composite_risk ==
                    [i \in 1..Len(fs[df].rows) |->
                        CompositeRisk(fs[df].rows[i].exposure,
                                      fs[df].rows[i].vulnerability,
                                      fs[df].rows[i].adaptation)]
                copy == PdCopy(fs, df)
                resilience_index ==
                    [i \in 1..Len(composite_risk) |->
                        NpRound2(Clip(FSub(FHundred, composite_risk[i])))]
            IN [frames |-> SetColumn(copy.frames, copy.id, "resilience_index",
                                     resilience_index),
                raised |-> None,
                value  |-> copy.id]

\* An impact that falls as the severity rises.
ImpactHalvesFalling(severity) == ((100 - severity) * HalvesPerUnit) \div 2

\* severity * 0.5, in halves.
ImpactHalves(severity) == (severity * HalvesPerUnit) \div 2

\* The clip with 50 for its upper bound.
ClipHalvesAtFifty(x) ==
    IF x > 50 * HalvesPerUnit THEN 50 * HalvesPerUnit
    ELSE IF x < 0 THEN 0
    ELSE x

\* Series.clip(0, 100) of a column of halves (the sums are exact floats).
ClipHalves(x) ==
    IF x > 100 * HalvesPerUnit THEN 100 * HalvesPerUnit
    ELSE IF x < 0 THEN 0
    ELSE x

\* The range test accepting every severity.
SeverityUnchecked(severity) == TRUE

\* 0 <= severity <= 100
SeverityInRange(severity) == 0 <= severity /\ severity <= 100

\* simulate_cyclone_impact(df, severity)
SimulateCycloneImpact(fs, df, severity) ==
    IF ~ SeverityInRange(severity)
    THEN Raise(fs, "ValueError")
    ELSE LET df_simulated == PdCopy(fs, df)
         IN IF "exposure" \notin fs[df].cols
            THEN Raise(df_simulated.frames, "KeyError")
            ELSE LET rows == df_simulated.frames[df_simulated.id].rows
                     exposure == [i \in 1..Len(rows) |->
                                    ClipHalves(rows[i].exposure + ImpactHalves(severity))]
                 IN CalculateResilienceBatch(
                        SetColumn(df_simulated.frames, df_simulated.id,
                                  "exposure", exposure),
                        df_simulated.id)

(* ---------------------------- data loading ---------------------------- *)

\* A region identifier or name is the sequence of its characters.
Whitespace == {" "}
LowerCase == <<"m", "u", "p", "l", "w", "b", "o", "k", "a">>
UpperCase == <<"M", "U", "P", "L", "W", "B", "O", "K", "A">>

\* str.upper, character by character.
UpperChar(c) ==
    IF \E i \in 1..Len(LowerCase) : LowerCase[i] = c
    THEN UpperCase[CHOOSE i \in 1..Len(LowerCase) : LowerCase[i] = c]
    ELSE c

StrUpper(s) == [i \in 1..Len(s) |-> UpperChar(s[i])]

RECURSIVE LStrip(_)
LStrip(s) == IF s # <<>> /\ Head(s) \in Whitespace THEN LStrip(Tail(s)) ELSE s

RECURSIVE RStrip(_)
RStrip(s) ==
    IF s # <<>> /\ s[Len(s)] \in Whitespace
    THEN RStrip(SubSeq(s, 1, Len(s) - 1))
    ELSE s

\* str.strip
StrStrip(s) == RStrip(LStrip(s))

\* str.startswith
StartsWith(s, prefix) ==
    Len(s) >= Len(prefix) /\ SubSeq(s, 1, Len(prefix)) = prefix

DigitChars == <<"0", "1", "2", "3", "4", "5", "6", "7", "8", "9">>

\* f"TEMP_{i:02d}" for i < 100.
TempPrefix == <<"T", "E", "M", "P", "_">>
\* The number alone, without the prefix.
TempIdBare(i) == <<DigitChars[(i \div 10) + 1], DigitChars[(i % 10) + 1]>>
TempId(i) == TempPrefix \o <<DigitChars[(i \div 10) + 1], DigitChars[(i % 10) + 1]>>

\* f"Région {i+1}" for i < 9.
TempName(i) == <<"R", "é", "g", "i", "o", "n", " ", DigitChars[i + 2]>>

\* The population merge_data gives a region when the data have none.
DefaultPopulation == 50000

\* gpd.GeoDataFrame() and pd.DataFrame(): no column, no row.
EmptyFrame == [live |-> TRUE, cols |-> {}, rows |-> <<>>]

\* geometry.simplify(tolerance=0.001, preserve_topology=True): geometry
\* "g1" becomes the simpler "s1".
Geometries == <<"g1", "g2", "g3", "g4">>
Simplified == <<"s1", "s2", "s3", "s4">>
Simplify(g) == Simplified[CHOOSE i \in 1..Len(Geometries) : Geometries[i] = g]

\* load_regions_geojson of a file [readable, columns, rows]: the properties
\* region_id and region_name the features carry, and their geometry (None
\* for a null geometry).
LoadRegionsGeojson(f) ==
    IF ~ f.readable THEN EmptyFrame
    ELSE LET named ==
                 [i \in 1..Len(f.rows) |->
                    IF "region_id" \notin f.columns
                    THEN [f.rows[i] EXCEPT !.region_id = TempId(i - 1),
                                           !.region_name = TempName(i - 1)]
                    ELSE IF "region_name" \notin f.columns
                    THEN [f.rows[i] EXCEPT !.region_name = f.rows[i].region_id]
                    ELSE f.rows[i]]
             HasGeometry(row) == row.geometry # None
             kept == SelectSeq(named, HasGeometry)
         IN [live |-> TRUE,
             cols |-> {"region_id", "region_name", "geometry"},
             rows |-> [i \in 1..Len(kept) |->
                         [kept[i] EXCEPT !.geometry = Simplify(kept[i].geometry)]]]

\* Series.clip(0, 100) of a number of halves.
ClipFactor(x) ==
    IF x < 0 THEN 0
    ELSE IF x > 100 * HalvesPerUnit THEN 100 * HalvesPerUnit ELSE x

\* load_resilience_data of a file [readable, columns, rows]; a cell of a
\* factor column is [numeric, halves], numeric FALSE for a cell
\* pd.to_numeric turns into NaN.
LoadResilienceData(f) ==
    IF ~ f.readable THEN EmptyFrame
    ELSE IF ~ ({"region_id", "exposure", "vulnerability", "adaptation"}
                  \subseteq f.columns)
    THEN EmptyFrame
    ELSE LET named ==
                 [i \in 1..Len(f.rows) |->
                    IF "region_name" \notin f.columns
                    THEN [f.rows[i] EXCEPT !.region_name = f.rows[i].region_id]
                    ELSE f.rows[i]]
             NotNa(row) ==
                 row.exposure.numeric /\ row.vulnerability.numeric
                    /\ row.adaptation.numeric
             kept == SelectSeq(named, NotNa)
         IN [live |-> TRUE,
             cols |-> f.columns \cup {"region_name"},
             rows |-> [i \in 1..Len(kept) |->
                         [region_id     |-> kept[i].region_id,
                          region_name   |-> kept[i].region_name,
                          exposure      |-> ClipFactor(kept[i].exposure.halves),
                          vulnerability |-> ClipFactor(kept[i].vulnerability.halves),
                          adaptation    |-> ClipFactor(kept[i].adaptation.halves)]]]

\* A row of the merged frame: the geometry of a region and the data of a
\* row of scores.
MergedRow(geometry, data) ==
    [region_id        |-> data.region_id,
     region_name      |-> data.region_name,
     geometry         |-> geometry,
     exposure         |-> data.exposure,
     vulnerability    |-> data.vulnerability,
     adaptation       |-> data.adaptation,
     population       |-> DefaultPopulation,
     resilience_index |-> None,
     category         |-> None]

MergedColumns ==
    {"region_id", "region_name", "geometry", "exposure", "vulnerability",
     "adaptation", "population"}

Min(a, b) == IF a < b THEN a ELSE b

\* Series.astype(str).str.strip().str.upper()
NormalizeId(id) == StrUpper(StrStrip(id))

\* DataFrame.merge(on='region_id', how='inner'): for each left row in
\* order, the right rows with its key, in order.
RECURSIVE InnerMerge(_, _)
InnerMerge(left, right) ==
    IF left = <<>> THEN <<>>
    ELSE LET l == Head(left)
             SameKey(r) == NormalizeId(r.region_id) = NormalizeId(l.region_id)
             matches == SelectSeq(right, SameKey)
         IN [i \in 1..Len(matches) |->
               MergedRow(l.geometry,
                         [matches[i] EXCEPT !.region_id = NormalizeId(matches[i].region_id)])]
            \o InnerMerge(Tail(left), right)

\* merge_data: the frame returned, the branch taken, and what the branch
\* printed: the length mismatch, the regions lost on each side.
NoMerge ==
    [frame |-> EmptyFrame, raised |-> None, branch |-> None,
     mismatch |-> FALSE, lost_geom |-> 0, lost_data |-> 0,
     regions |-> EmptyFrame, resilience |-> EmptyFrame]

MergeData(files) ==
    LET regions_gdf == LoadRegionsGeojson(files.geojson)
        resilience_df == LoadResilienceData(files.csv)
    IN IF Len(regions_gdf.rows) = 0
       THEN [NoMerge EXCEPT !.branch = "no regions"]
       ELSE IF Len(resilience_df.rows) = 0
       THEN [NoMerge EXCEPT !.branch = "no data", !.regions = regions_gdf]
       ELSE IF StartsWith(regions_gdf.rows[1].region_id, TempPrefix)
       THEN LET n == Min(Len(regions_gdf.rows), Len(resilience_df.rows))
            IN [raised |-> None,
                frame |-> [live |-> TRUE,
                           cols |-> MergedColumns,
                           rows |-> [i \in 1..n |->
                                       MergedRow(regions_gdf.rows[i].geometry,
                                                 resilience_df.rows[i])]],
                branch |-> "index",
                mismatch |-> Len(regions_gdf.rows) # Len(resilience_df.rows),
                lost_geom |-> 0,
                lost_data |-> 0,
                regions |-> regions_gdf,
                resilience |-> resilience_df]
       ELSE LET merged == InnerMerge(regions_gdf.rows, resilience_df.rows)
            IN [raised |-> None,
                frame |-> [live |-> TRUE, cols |-> MergedColumns, rows |-> merged],
                branch |-> "region_id",
                mismatch |-> FALSE,
                lost_geom |-> Len(regions_gdf.rows) - Len(merged),
                lost_data |-> Len(resilience_df.rows) - Len(merged),
                regions |-> regions_gdf,
                resilience |-> resilience_df]

\* load_base_data: merge_data, then calculate_resilience_batch of the frame
\* merged; an exception is caught and None returned (value NoFrame).
LoadBaseData(files) ==
    LET df == MergeData(files).frame
        scored == CalculateResilienceBatch([NoFrames EXCEPT ![CallerDf] = df], CallerDf)
    IN [given  |-> df,
        caught |-> scored.raised,
        value  |-> IF scored.raised = None
                   THEN scored.frames[scored.value]
                   ELSE NoFrame]

(* ----------------------- distances in binary64 ------------------------ *)

\* The distances of security_advisor_ai.py are floats computed from
\* coordinates with four decimals: differences, squares, a sum and a square
\* root, each rounded to SignificandBits bits.  Their magnitudes are wide
\* naturals: WideLimbs limbs of WideBits bits, least significant first,
\* short enough for the product of two limbs to fit 32 bits.
WideBits == 14
WideLimbs == 8
WideBase == 2^WideBits

RECURSIVE WCarryFrom(_, _, _)
WCarryFrom(s, i, carry) ==
    IF i > WideLimbs THEN <<>>
    ELSE LET t == s[i] + carry
         IN <<t % WideBase>> \o WCarryFrom(s, i + 1, t \div WideBase)

\* Carry (or borrow) propagation over limbs outside 0..WideBase-1.
WCarry(s) == WCarryFrom(s, 1, 0)

WFromNat(n) == WCarry([i \in 1..WideLimbs |-> IF i = 1 THEN n ELSE 0])
WZero == WFromNat(0)
WOne == WFromNat(1)

WAdd(a, b) == WCarry([i \in 1..WideLimbs |-> a[i] + b[i]])

\* a - b for a >= b.
WSub(a, b) == WCarry([i \in 1..WideLimbs |-> a[i] - b[i]])

WLess(a, b) ==
    \E i \in 1..WideLimbs :
       a[i] < b[i] /\ \A j \in (i + 1)..WideLimbs : a[j] = b[j]

\* a * c for a natural c of at most 17 bits.
WMulSmall(a, c) == WCarry([i \in 1..WideLimbs |-> a[i] * c])

RECURSIVE WColumn(_, _, _, _)
WColumn(a, b, k, i) ==
    IF i > k THEN 0 ELSE a[i] * b[k + 1 - i] + WColumn(a, b, k, i + 1)

\* a * b, for a product that fits.
WMul(a, b) == WCarry([k \in 1..WideLimbs |-> WColumn(a, b, k, 1)])

RECURSIVE WDivFrom(_, _, _, _)
WDivFrom(a, d, i, rem) ==
    IF i = 0 THEN [quot |-> <<>>, rem |-> rem]
    ELSE LET cur  == rem * WideBase + a[i]
             rest == WDivFrom(a, d, i - 1, cur % d)
         IN [quot |-> rest.quot \o <<cur \div d>>, rem |-> rest.rem]

\* floor(a / d) and the remainder, for a natural d of at most 17 bits.
WDivSmall(a, d) == WDivFrom(a, d, WideLimbs, 0)

\* a * 2^n and floor(a / 2^n).
WShl(a, n) ==
    LET k == n \div WideBits
    IN WMulSmall([i \in 1..WideLimbs |-> IF i > k THEN a[i - k] ELSE 0],
                 2^(n % WideBits))

WShr(a, n) ==
    LET k == n \div WideBits
        m == 2^(n % WideBits)
        Limb(i) == IF i <= WideLimbs THEN a[i] ELSE 0
    IN WCarry([i \in 1..WideLimbs |->
                 (Limb(i + k) \div m) + (Limb(i + k + 1) % m) * (WideBase \div m)])

WBitLen(a) ==
    IF \A i \in 1..WideLimbs : a[i] = 0 THEN 0
    ELSE LET h == CHOOSE i \in 1..WideLimbs :
                     a[i] # 0 /\ \A j \in (i + 1)..WideLimbs : a[j] = 0
         IN (h - 1) * WideBits + Bits(a[h])

\* Bit j of a, the lowest being bit 0.
WBit(a, j) == (a[(j \div WideBits) + 1] \div 2^(j % WideBits)) % 2

\* Round to nearest, ties to even, to SignificandBits significant bits;
\* sticky: the exact value is a bit more than a.
WRound53(a, sticky) ==
    LET s == WBitLen(a) - SignificandBits
    IN IF s <= 0 THEN a
       ELSE LET q    == WShr(a, s)
                low  == WSub(a, WShl(q, s))
                half == WShl(WOne, s - 1)
                up   == \/ WLess(half, low)
                        \/ low = half /\ (sticky \/ q[1] % 2 = 1)
            IN WShl(IF up THEN WAdd(q, WOne) ELSE q, s)

\* One step of the square root bit by bit: pair st.p of the bits of n (bits
\* 2p-1 and 2p-2) is brought down to the remainder; nothing when no pair is
\* left.
SqrtStep(n, st) ==
    LET two   == 2 * WBit(n, 2 * st.p - 1) + WBit(n, 2 * st.p - 2)
        r4    == WCarry([i \in 1..WideLimbs |->
                           IF i = 1 THEN 4 * st.rem[1] + two ELSE 4 * st.rem[i]])
        trial == WCarry([i \in 1..WideLimbs |->
                           IF i = 1 THEN 4 * st.root[1] + 1 ELSE 4 * st.root[i]])
    IN IF st.p = 0 THEN st
       ELSE IF WLess(r4, trial)
       THEN [p |-> st.p - 1, rem |-> r4, root |-> WMulSmall(st.root, 2)]
       ELSE [p    |-> st.p - 1,
             rem  |-> WSub(r4, trial),
             root |-> WCarry([i \in 1..WideLimbs |->
                                IF i = 1 THEN 2 * st.root[1] + 1
                                ELSE 2 * st.root[i]])]

\* Five steps at a time until no pair is left.
RECURSIVE WSqrtFrom(_, _)
WSqrtFrom(n, st) ==
    IF st.p = 0 THEN st
    ELSE WSqrtFrom(n, SqrtStep(n, SqrtStep(n, SqrtStep(n, SqrtStep(n,
                         SqrtStep(n, st))))))

\* floor(sqrt(n)) and whether n is its square.
WSqrt(n) ==
    LET st == WSqrtFrom(n, [p |-> (WBitLen(n) + 1) \div 2,
                            rem |-> WZero, root |-> WZero])
    IN [root |-> st.root, exact |-> st.rem = WZero]

\* Coordinates count ten-thousandths of a degree.  The float of a
\* coordinate between 8 and 64 degrees is a multiple of 2^-CoordBits, and
\* is its magnitude in that unit; a square or a sum of squares has the unit
\* 2^-(2 CoordBits) and a distance the unit 2^-(CoordBits + GuardBits).
DegreeScale == 10000
CoordBits == 49
GuardBits == 20
RootBits == 55

\* The float a decimal literal n / 10000 denotes: the quotient with
\* QuotientBits more bits, rounded.
QuotientBits == 11
FloatOfDegrees(n) ==
    LET d == WDivSmall(WShl(WFromNat(IF n < 0 THEN -n ELSE n),
                            CoordBits + QuotientBits), DegreeScale)
    IN [neg |-> n < 0,
        mag |-> WShr(WRound53(d.quot, d.rem # 0), QuotientBits)]

\* |x - y| as the float subtraction gives it.
FAbsDiff(x, y) ==
    IF x.neg # y.neg THEN WRound53(WAdd(x.mag, y.mag), FALSE)
    ELSE IF WLess(x.mag, y.mag) THEN WRound53(WSub(y.mag, x.mag), FALSE)
    ELSE WRound53(WSub(x.mag, y.mag), FALSE)

FSquare(d) == WRound53(WMul(d, d), FALSE)

\* The rounded root of a float s: the root of s * 2^(2g) has RootBits bits
\* for the g chosen, two more than the rounding keeps, and g is at most
\* GuardBits for a distance of 0.0001 degree and more.
FSqrt(s) ==
    LET room == 2 * RootBits - WBitLen(s)
        even == room - (room % 2)
        g2   == IF even > 2 * GuardBits THEN 2 * GuardBits ELSE even
        r    == WSqrt(WShl(s, g2))
    IN WShl(WRound53(r.root, ~ r.exact), GuardBits - (g2 \div 2))

\* cdist(user_pos, [[r_lat, r_lon]], metric='euclidean')[0][0]
Euclidean(lat, lon, r_lat, r_lon) ==
    LET d_lat == FAbsDiff(FloatOfDegrees(lat), FloatOfDegrees(r_lat))
        d_lon == FAbsDiff(FloatOfDegrees(lon), FloatOfDegrees(r_lon))
    IN FSqrt(WRound53(WAdd(FSquare(d_lat), FSquare(d_lon)), FALSE))

\* Kilometres in a degree, in dist_km.
KmPerDegree == 111

\* dist * 111, rounded.
DistKm(dist) == WRound53(WMulSmall(dist, KmPerDegree), FALSE)

(* --------------------------- SecurityAdvisor -------------------------- *)

\* self.region_coords of __init__, in the dictionary's order.
RegionCoords ==
    <<[region_id |-> "MUPL", lat |-> -201612, lon |-> 575012],
      [region_id |-> "MUMO", lat |-> -203000, lon |-> 574800],
      [region_id |-> "MUFL", lat |-> -203400, lon |-> 577500],
      [region_id |-> "MUGP", lat |-> -204000, lon |-> 576800],
      [region_id |-> "MURO", lat |-> -197300, lon |-> 634200],
      [region_id |-> "MURR", lat |-> -201200, lon |-> 574200],
      [region_id |-> "MUPW", lat |-> -204100, lon |-> 574200],
      [region_id |-> "MUBL", lat |-> -203500, lon |-> 573000],
      [region_id |-> "MUSA", lat |-> -205200, lon |-> 574200],
      [region_id |-> "MUPA", lat |-> -200900, lon |-> 575600],
      [region_id |-> "MUAG", lat |-> -200200, lon |-> 577500],
      [region_id |-> "MUCC", lat |-> -158500, lon |-> 596200]>>

\* cdist(...)[0][0]: a function of the two points, read in the state, where
\* its value on the points of the model is computed once.
Cdist(lat, lon, r_lat, r_lon) == cdist[<<lat, lon, r_lat, r_lon>>]

\* The data frame of pd.read_csv, with the column resilience_index of
\* __init__: calculate_resilience of each row.
ReadScores(table) ==
    [live |-> TRUE,
     cols |-> {"region_id", "region_name", "exposure", "vulnerability",
               "adaptation", "resilience_index"},
     rows |-> [i \in 1..Len(table) |->
                 [region_id        |-> table[i].region_id,
                  region_name      |-> table[i].region_name,
                  exposure         |-> table[i].exposure,
                  vulnerability    |-> table[i].vulnerability,
                  adaptation       |-> table[i].adaptation,
                  resilience_index |-> CalculateResilience(table[i].exposure,
                                                           table[i].vulnerability,
                                                           table[i].adaptation),
                  category         |-> None]]]

\* min(distances, key=...) keeping the last of the smallest.
PyMinLast(distances) ==
    CHOOSE i \in 1..Len(distances) :
       /\ \A j \in 1..Len(distances) : ~ WLess(distances[j].dist, distances[i].dist)
       /\ \A j \in (i + 1)..Len(distances) : WLess(distances[i].dist, distances[j].dist)

\* min(distances, key=lambda x: x[1]): the first of the smallest.
PyMin(distances) ==
    CHOOSE i \in 1..Len(distances) :
       /\ \A j \in 1..Len(distances) : ~ WLess(distances[j].dist, distances[i].dist)
       /\ \A j \in 1..(i - 1) : WLess(distances[i].dist, distances[j].dist)

\* No region data: None.
NoRegionData == [found |-> FALSE]

\* _find_nearest_region: the exception raised or None, the pair min
\* selected, and the value returned.
FindNearestRegion(self, lat, lon) ==
    LET coords == self.region_coords
        distances == [i \in 1..Len(coords) |->
                        [region_id |-> coords[i].region_id,
                         dist |-> Cdist(lat, lon, coords[i].lat, coords[i].lon)]]
    IN IF Len(coords) = 0
       THEN [raised |-> "ValueError", nearest |-> 0, value |-> NoRegionData]
       ELSE LET nearest == PyMin(distances)
                nearest_id == distances[nearest].region_id
                Matches(row) == row.region_id = nearest_id
                region_row == SelectSeq(self.resilience_data.rows, Matches)
            IN [raised  |-> None,
                nearest |-> nearest,
                value   |-> IF region_row = <<>> THEN NoRegionData
                            ELSE [found            |-> TRUE,
                                  region_id        |-> nearest_id,
                                  region_name      |-> region_row[1].region_name,
                                  exposure         |-> region_row[1].exposure,
                                  vulnerability    |-> region_row[1].vulnerability,
                                  adaptation       |-> region_row[1].adaptation,
                                  resilience_index |-> region_row[1].resilience_index,
                                  lat              |-> coords[nearest].lat,
                                  lon              |-> coords[nearest].lon]]

\* The score from which a region is a safe zone.
SafeFrom == 60
\* top_n of _find_safe_zones and of _find_risk_zones.
TopN == 3

\* resilience_index >= 60, of an index in hundredths.
IsSafe(resilience_index) == resilience_index >= SafeFrom * HundredthsPerUnit

\* list.sort(key=...) leaving the list as it is.
SortedByNothing(s) == s

\* list.sort(key=lambda x: x["distance_km"]): ascending and stable; an
\* element's place is the number of the elements that go before it.
SortedByDistance(s) ==
    LET Before(j, i) == \/ WLess(s[j].distance_km, s[i].distance_km)
                        \/ s[j].distance_km = s[i].distance_km /\ j < i
        Place(i) == Cardinality({j \in 1..Len(s) : Before(j, i)}) + 1
    IN [k \in 1..Len(s) |-> s[CHOOSE i \in 1..Len(s) : Place(i) = k]]

\* s[:n]
Prefix(s, n) == SubSeq(s, 1, Min(n, Len(s)))

\* _find_safe_zones with top_n left at its default.
FindSafeZones(self, lat, lon, exclude_region) ==
    LET coords == self.region_coords
        Known(id) == \E i \in 1..Len(coords) : coords[i].region_id = id
        At(id) == coords[CHOOSE i \in 1..Len(coords) : coords[i].region_id = id]
        Safe(row) == IsSafe(row.resilience_index)
        safe_regions == SelectSeq(self.resilience_data.rows, Safe)
        Kept(row) == row.region_id # exclude_region /\ Known(row.region_id)
        kept == SelectSeq(safe_regions, Kept)
        safe_candidates ==
            [i \in 1..Len(kept) |->
                [region_id        |-> kept[i].region_id,
                 region_name      |-> kept[i].region_name,
                 resilience_index |-> kept[i].resilience_index,
                 distance_km      |-> DistKm(Cdist(lat, lon, At(kept[i].region_id).lat,
                                                   At(kept[i].region_id).lon)),
                 lat              |-> At(kept[i].region_id).lat,
                 lon              |-> At(kept[i].region_id).lon]]
    IN Prefix(SortedByDistance(safe_candidates), TopN)

\* The score under which a region is a risk zone.
RiskUnder == 40

\* _find_risk_zones: sort_values keeps the file's order among the equal
\* scores of so short a column.
FindRiskZones(self) ==
    LET Risky(row) == row.resilience_index < RiskUnder * HundredthsPerUnit
        risk_regions == SelectSeq(self.resilience_data.rows, Risky)
        Before(j, i) == \/ risk_regions[j].resilience_index < risk_regions[i].resilience_index
                        \/ /\ risk_regions[j].resilience_index = risk_regions[i].resilience_index
                           /\ j < i
        Place(i) == Cardinality({j \in 1..Len(risk_regions) : Before(j, i)}) + 1
        sorted == [k \in 1..Len(risk_regions) |->
                     risk_regions[CHOOSE i \in 1..Len(risk_regions) : Place(i) = k]]
    IN [k \in 1..Min(TopN, Len(sorted)) |->
          [region_name      |-> sorted[k].region_name,
           resilience_index |-> sorted[k].resilience_index,
           exposure         |-> sorted[k].exposure,
           vulnerability    |-> sorted[k].vulnerability]]

\* The bits a quotient is computed with beyond those of a distance.
DistBits == CoordBits + GuardBits
DivisionBits == 8
\* Kilometres an hour, and minutes in an hour, of travel_time.
KmPerHour == 50
MinutesPerHour == 60

\* int(z['distance_km'] / 50 * 60): the quotient and the product rounded as
\* floats, the integer part taken.
TravelMinutes(distance_km) ==
    LET d    == WDivSmall(WShl(distance_km, DivisionBits), KmPerHour)
        q    == WRound53(d.quot, d.rem # 0)
        m    == WShr(WRound53(WMulSmall(q, MinutesPerHour), FALSE),
                     DistBits + DivisionBits)
    IN m[1] + m[2] * WideBase

\* The severities above which the risk level is that of the cyclone.
ExtremeAbove == 80
SevereAbove == 50
ModerateAbove == 20

\* risk_level and immediate_action of _call_gemini_for_advice; the texts
\* are named by their first words, and the intensity they quote is kept.
RiskOf(resilience, cyclone_severity) ==
    IF cyclone_severity > ExtremeAbove
    THEN [risk_level |-> "CRITIQUE",
          immediate_action |-> <<"Évacuez IMMÉDIATEMENT", cyclone_severity>>]
    ELSE IF cyclone_severity > SevereAbove
    THEN [risk_level |-> "TRÈS ÉLEVÉ",
          immediate_action |-> <<"Préparez-vous à évacuer", cyclone_severity>>]
    ELSE IF cyclone_severity > ModerateAbove
    THEN [risk_level |-> "ÉLEVÉ",
          immediate_action |-> <<"Restez à l'intérieur", cyclone_severity>>]
    ELSE IF resilience < RiskUnder * HundredthsPerUnit
    THEN [risk_level |-> "MODÉRÉ", immediate_action |-> <<"Restez vigilant">>]
    ELSE IF resilience < SafeFrom * HundredthsPerUnit
    THEN [risk_level |-> "FAIBLE", immediate_action |-> <<"Suivez les actualités">>]
    ELSE [risk_level |-> "BASSE", immediate_action |-> <<"Vous êtes dans une zone à haute résilience">>]

\* The safe zone the fallback names when it was given none: 5.0 km, score
\* 70, travel time "Variable" (no number of minutes).
DefaultKm == 5
DefaultScore == 70
DefaultSafeZone ==
    [name             |-> "Centre d'évacuation le plus proche",
     distance_km      |-> WShl(WFromNat(DefaultKm), DistBits),
     resilience_score |-> DefaultScore * HundredthsPerUnit,
     travel_time      |-> <<>>]

\* _generate_fallback_advice, called with every argument: the fields that
\* depend on the arguments (the other fields are fixed texts).
GenerateFallbackAdvice(region_data, disaster_type, risk_level, safe_zones, immediate_action) ==
    LET safe_zones_advice ==
            [i \in 1..Min(TopN, Len(safe_zones)) |->
                [name             |-> safe_zones[i].region_name,
                 distance_km      |-> safe_zones[i].distance_km,
                 resilience_score |-> safe_zones[i].resilience_index,
                 travel_time      |-> <<TravelMinutes(safe_zones[i].distance_km)>>]]
    IN [source           |-> "fallback",
        location         |-> region_data.region_name,
        risk_level       |-> risk_level,
        immediate_action |-> immediate_action,
        safe_zones       |-> IF Len(safe_zones_advice) > 0 THEN safe_zones_advice
                             ELSE <<DefaultSafeZone>>,
        during_disaster  |-> disaster_type]

\* _generate_generic_advice
GenerateGenericAdvice(disaster_type) ==
    [source           |-> "generic",
     location         |-> "Maurice - Localisation inconnue",
     risk_level       |-> "INCONNU",
     immediate_action |-> <<"Contactez les autorités">>,
     safe_zones       |-> <<[name             |-> "Zone de refuge",
                             distance_km      |-> WZero,
                             resilience_score |-> DefaultScore * HundredthsPerUnit,
                             travel_time      |-> <<>>]>>,
     during_disaster  |-> disaster_type]

\* What model.generate_content does: it raises, or it replies a text that
\* json.loads rejects, a JSON text that is no object, or a JSON object.
Replies ==
    {[kind |-> "raises",     text |-> ""],
     [kind |-> "unparsable", text |-> "Désolé"],
     [kind |-> "unparsable", text |-> "{"],
     [kind |-> "list",       text |-> "[]"],
     [kind |-> "object",     text |-> "{...}"]}

\* No advice returned.
NoAdvice == [source |-> "none"]

\* A call of the service outside the try block.
CallGeminiForAdviceNoTry(region_data, disaster_type, safe_zones, cyclone_severity, reply) ==
    LET risk == RiskOf(region_data.resilience_index, cyclone_severity)
    IN IF reply.kind = "object"
       THEN [raised |-> None,
             value  |-> [source           |-> "service",
                         text             |-> reply.text,
                         immediate_action |-> risk.immediate_action]]
       ELSE [raised |-> "Exception", value |-> NoAdvice]

\* _call_gemini_for_advice from its try block on: the reply is parsed and
\* gets the immediate action, and every exception gives the fallback.
CallGeminiForAdvice(region_data, disaster_type, safe_zones, cyclone_severity, reply) ==
    LET risk == RiskOf(region_data.resilience_index, cyclone_severity)
    IN IF reply.kind = "object"
       THEN [raised |-> None,
             value  |-> [source           |-> "service",
                         text             |-> reply.text,
                         immediate_action |-> risk.immediate_action]]
       ELSE [raised |-> None,
             value  |-> GenerateFallbackAdvice(region_data, disaster_type,
                                               risk.risk_level, safe_zones,
                                               risk.immediate_action)]

\* A frame with the values of its rows computed, once.
Computed(df) ==
    [live |-> df.live, cols |-> df.cols, rows |-> SubSeq(df.rows, 1, Len(df.rows))]

\* The heap of a caller that holds df alone.
HeapOf(df) == [id \in FrameIds |-> IF id = CallerDf THEN df ELSE NoFrame]

\* Line 71: the frame simulate_cyclone_impact returned, or its exception.
SimulatedOf(frame, sim) ==
    IF sim.raised # None THEN [raised |-> sim.raised, df |-> frame]
    ELSE [raised |-> None, df |-> Computed(sim.frames[sim.value])]

\* Line 70: simulate_cyclone_impact on the frame calculate_resilience_batch
\* returned, or the exception of the latter.
SimulatedFrom(frame, cyclone_severity, batch) ==
    IF batch.raised # None THEN [raised |-> batch.raised, df |-> frame]
    ELSE SimulatedOf(frame,
                     SimulateCycloneImpact(HeapOf(Computed(batch.frames[batch.value])),
                                           CallerDf, cyclone_severity))

\* Lines 67 to 71 of get_advice_for_location: the frame scored and
\* simulated, or the exception of the two functions.
Simulated(frame, cyclone_severity) ==
    SimulatedFrom(frame, cyclone_severity,
                  CalculateResilienceBatch(HeapOf(frame), CallerDf))

(* ------------------------------ ReportAI ------------------------------ *)

\* default_names of _load_region_names (the GeoJSON file names the regions
\* alike), in the order of RegionCoords.
RegionNamesOf ==
    <<"Port Louis", "Moka", "Flacq", "Grand Port", "Rodriguez Island",
      "Riviere du Rempart", "Plaines Wilhems", "Black River", "Savanne",
      "Pamplemousses", "North Islands", "Saint Brandon Islands">>

\* _get_region_name: self.region_names.get(region_id, region_id)
GetRegionName(region_id) ==
    IF \E i \in 1..Len(RegionCoords) : RegionCoords[i].region_id = region_id
    THEN RegionNamesOf[CHOOSE i \in 1..Len(RegionCoords) :
                          RegionCoords[i].region_id = region_id]
    ELSE region_id

\* The scores under which _categorize_resilience names a category.
CategoryBounds == <<40, 60, 80>>

\* _categorize_resilience, of a score in hundredths.
CategorizeResilience(score) ==
    IF score < CategoryBounds[1] * HundredthsPerUnit THEN "CRITIQUE"
    ELSE IF score < CategoryBounds[2] * HundredthsPerUnit THEN "FAIBLE"
    ELSE IF score < CategoryBounds[3] * HundredthsPerUnit THEN "MODÉRÉ"
    ELSE "ÉLEVÉ"

\* _load_resilience_data: the rows of the file with resilience_index and
\* resilience_category.
LoadReportData(table) ==
    [i \in 1..Len(table) |->
        LET resilience_index == CalculateResilience(table[i].exposure,
                                                    table[i].vulnerability,
                                                    table[i].adaptation)
        IN [region_id           |-> table[i].region_id,
            region_name         |-> table[i].region_name,
            exposure            |-> table[i].exposure,
            vulnerability       |-> table[i].vulnerability,
            adaptation          |-> table[i].adaptation,
            resilience_index    |-> resilience_index,
            resilience_category |-> CategorizeResilience(resilience_index)]]

RECURSIVE SumOfIndex(_)
SumOfIndex(rows) ==
    IF rows = <<>> THEN 0
    ELSE rows[1].resilience_index + SumOfIndex(Tail(rows))

\* list.sort(key=lambda x: x["resilience_index"]): ascending and stable.
SortedByIndex(s) ==
    LET Before(j, i) == \/ s[j].resilience_index < s[i].resilience_index
                        \/ s[j].resilience_index = s[i].resilience_index /\ j < i
        Place(i) == Cardinality({j \in 1..Len(s) : Before(j, i)}) + 1
    IN [k \in 1..Len(s) |-> s[CHOOSE i \in 1..Len(s) : Place(i) = k]]

\* _prepare_context, of a frame with rows: the regions by score, and the
\* mean of the scores (sum and number of the rows, in hundredths); the
\* lists of the prompt only (critical zones, adaptation gaps, alerts,
\* hazard zones) are left out.
PrepareContext(data) ==
    [regions |-> SortedByIndex(
                    [i \in 1..Len(data) |->
                        [id               |-> data[i].region_id,
                         name             |-> GetRegionName(data[i].region_id),
                         resilience_index |-> data[i].resilience_index,
                         category         |-> data[i].resilience_category,
                         exposure         |-> data[i].exposure,
                         vulnerability    |-> data[i].vulnerability,
                         adaptation       |-> data[i].adaptation]]),
     total_regions  |-> Len(data),
     avg_resilience |-> Ratio(SumOfIndex(data), Len(data))]

\* The divisors and the floors of resource_needs, and the score under
\* which a helicopter is asked for.
UsarPer == 30
SmurPer == 25
SmurAtLeast == 2
HelicopterUnder == 35
\* The caps and the factors of resource_allocation.
MaxHelicopters == 3
AmbulancesPerCritical == 3
AmbulancesPerHighRisk == 2
TeamsPerCritical == 2
\* The regions with a harbour, getting two boats.
Harbours == {"Port Louis", "Mahebourg", "Grand Port"}

\* _generate_fallback_advice: the fields that depend on the context (the
\* other fields are fixed texts).
GenerateFallbackReport(context, region_id) ==
    LET Critical(r) == r.resilience_index < CategoryBounds[1] * HundredthsPerUnit
        HighRisk(r) == /\ CategoryBounds[1] * HundredthsPerUnit <= r.resilience_index
                       /\ r.resilience_index < CategoryBounds[2] * HundredthsPerUnit
        critical  == SelectSeq(context.regions, Critical)
        high_risk == SelectSeq(context.regions, HighRisk)
        Max(a, b) == IF a > b THEN a ELSE b
        Advice(r) ==
            [region           |-> r.name,
             resilience_score |-> r.resilience_index,
             exposure         |-> r.exposure,
             vulnerability    |-> r.vulnerability,
             adaptation       |-> r.adaptation,
             usar             |-> Max(1, r.vulnerability \div (UsarPer * HalvesPerUnit)),
             helicopters      |-> IF r.resilience_index < HelicopterUnder * HundredthsPerUnit
                                  THEN 1 ELSE 0,
             smur             |-> Max(SmurAtLeast, r.exposure \div (SmurPer * HalvesPerUnit))]
        advised == critical \o Prefix(high_risk, 3)
        Names(s) == [i \in 1..Len(s) |-> s[i].name]
    IN [source   |-> "fallback",
        scope    |-> IF region_id # None /\ Len(context.regions) > 0
                     THEN context.regions[1].name
                     ELSE "Île Maurice - Analyse globale",
        executive_summary |-> [critical  |-> Len(critical),
                               high_risk |-> Len(high_risk),
                               avg       |-> context.avg_resilience],
        severity_level |-> IF Len(critical) >= 3 THEN "CRITIQUE"
                           ELSE IF Len(critical) > 0 THEN "ÉLEVÉ"
                           ELSE "MODÉRÉ",
        region_specific_advice |-> [i \in 1..Len(advised) |-> Advice(advised[i])],
        evacuation_priorities  |-> Names(critical) \o Names(Prefix(high_risk, 2)),
        resource_allocation |->
            [helicopters        |-> Min(MaxHelicopters, Len(critical)),
             ambulances         |-> AmbulancesPerCritical * Len(critical)
                                    + AmbulancesPerHighRisk * Len(high_risk),
             rescue_teams       |-> TeamsPerCritical * Len(critical) + Len(high_risk),
             boats              |-> IF \E i \in 1..Len(critical) :
                                          critical[i].name \in Harbours
                                    THEN 2 ELSE 1,
             emergency_shelters |-> Len(critical) + Len(high_risk)]]

\* _call_gemini from its try block on: what json.loads makes of the reply
\* is returned, and every exception gives the fallback.
CallGemini(context, region_id, reply) ==
    IF reply.kind \in {"object", "list"}
    THEN [raised |-> None, value |-> [source |-> "service", text |-> reply.text]]
    ELSE [raised |-> None, value |-> GenerateFallbackReport(context, region_id)]

\* generate_security_advice
GenerateSecurityAdvice(self, region_id, reply) ==
    LET Of(row) == row.region_id = region_id
        data == IF region_id # None THEN SelectSeq(self.resilience_data, Of)
                ELSE self.resilience_data
    IN IF region_id # None /\ data = <<>>
       THEN [raised |-> None, context |-> <<>>,
             value |-> [source |-> "error", region_id |-> region_id]]
       ELSE LET context == PrepareContext(data)
                advice == CallGemini(context, region_id, reply)
            IN [raised |-> advice.raised, context |-> context, value |-> advice.value]

(* ------------------------------ the file ------------------------------ *)

\* The file's length in bytes grows with the number of reports it holds.
Size(alerts) == Len(alerts) + 1

AbsentFile == [exists |-> FALSE, json |-> FALSE, alerts |-> <<>>, size |-> 0]

\* open(ALERTS_FILE, 'w'): the file exists and is empty.
Truncated == [exists |-> TRUE, json |-> FALSE, alerts |-> <<>>, size |-> 0]

\* json.dump(alerts, f) and the close that flushes it: the bytes go to
\* offset 0.  Bytes another writer put past their end stay, and the file is
\* then no JSON document.
Written(f, alerts) ==
    IF Size(alerts) >= f.size
    THEN [exists |-> TRUE, json |-> TRUE, alerts |-> alerts, size |-> Size(alerts)]
    ELSE [exists |-> TRUE, json |-> FALSE, alerts |-> <<>>, size |-> f.size]

\* json.load(f), and load_alerts' except: return []
Loaded(f) == IF f.exists /\ f.json THEN f.alerts ELSE <<>>

\* History: the last complete list the file held, after a write left f.
GoodAfter(f, old) == IF f.json THEN f.alerts ELSE old

Reading(op) == op \in {"get_region_alert_stats", "get_all_alerts_summary"}

(* ------------------------------- state -------------------------------- *)

NoCall == [op |-> None, region_id |-> None, alert_type |-> None, hours |-> 0,
           df |-> <<>>]

NoLocals == [alerts |-> <<>>, cutoff |-> 0, filtered |-> <<>>,
             alerts_data |-> <<>>, i |-> 0]

NoPrune == [valid |-> FALSE, hours |-> 0, alerts |-> <<>>]

Ops == {"save_alert", "get_region_alert_stats", "get_all_alerts_summary",
        "clear_old_alerts"}

NoScoring == [op |-> None, args |-> <<>>, raised |-> None, value |-> 0,
              category |-> None, given |-> NoFrame]

NoSim == [valid |-> FALSE, severity |-> 0, rows |-> <<>>]

\* Arguments of calculate_resilience, in halves: inside [0, 100], on its
\* bounds, and outside.
ArgHalves == {-100, 0, 1, 2, 3, 80, 120, 140, 141, 199, 200, 201, 400}

\* Scores handed to get_resilience_category, in hundredths: every score of
\* two decimals in [0, 100], and some outside.
Scores == -50..10050

\* The severities of simulate_cyclone_impact: the slider's range, and the
\* integers next to it.
Severities == {-1, 0, 1, 2, 50, 100, 101}

\* exposure, vulnerability and adaptation of the rows of the caller's
\* DataFrame, as load_resilience_data leaves them (clipped to [0, 100]).
FactorRows == {<<0, 0, 2>>, <<1, 0, 2>>, <<140, 120, 80>>, <<199, 0, 0>>,
               <<200, 200, 0>>}

RegionIds == <<"MUPL", "MUPW", "MUBL">>
RegionNames == <<"Port Louis", "Plaines Wilhems", "Black River">>

FactorColumns == {"exposure", "vulnerability", "adaptation"}

\* The frames merge_data can hand over: the region columns and the factor
\* columns, and, for a source that lacks one, the frame without it.
ColumnSets ==
    {{"region_id", "region_name"} \cup FactorColumns}
    \cup {{"region_id", "region_name"} \cup (FactorColumns \ {c}) : c \in FactorColumns}

NewFrame(cols, factors) ==
    [live |-> TRUE,
     cols |-> cols,
     rows |-> [i \in 1..Len(factors) |->
                 [region_id        |-> RegionIds[i],
                  region_name      |-> RegionNames[i],
                  exposure         |-> IF "exposure" \in cols THEN factors[i][1] ELSE None,
                  vulnerability    |-> IF "vulnerability" \in cols THEN factors[i][2] ELSE None,
                  adaptation       |-> IF "adaptation" \in cols THEN factors[i][3] ELSE None,
                  resilience_index |-> None,
                  category         |-> None]]]

Batches ==
    UNION {[1..n -> FactorRows] : n \in 0..MaxRows}

\* No call of the loader made.
NoLoading ==
    [op |-> None, merge |-> NoMerge, given |-> NoFrame, caught |-> None,
     value |-> NoFrame]

\* A file that cannot be read.
Unreadable == [readable |-> FALSE, columns |-> {}, rows |-> <<>>]
NoDataFiles == [geojson |-> Unreadable, csv |-> Unreadable]

\* The features a GeoJSON file is made of: region_id, region_name and
\* geometry; the third feature has a null geometry.
Features ==
    {[region_id |-> <<"M", "U", "P", "L">>, region_name |-> <<"P", "L">>,
      geometry |-> "g1"],
     [region_id |-> <<" ", "m", "u", "p", "w">>, region_name |-> <<"P", "W">>,
      geometry |-> "g2"],
     [region_id |-> <<"M", "U", "B", "L">>, region_name |-> <<"B", "L">>,
      geometry |-> None]}

\* The feature as read from a file whose features carry fewer properties.
FeatureWith(columns, feature) ==
    [region_id   |-> IF "region_id" \in columns THEN feature.region_id ELSE <<>>,
     region_name |-> IF "region_name" \in columns THEN feature.region_name ELSE <<>>,
     geometry    |-> feature.geometry]

GeojsonColumnSets == {{}, {"region_id"}, {"region_id", "region_name"}}

GeojsonFiles ==
    {Unreadable} \cup
    {[readable |-> TRUE, columns |-> columns,
      rows |-> [i \in 1..Len(rows) |-> FeatureWith(columns, rows[i])]] :
        columns \in GeojsonColumnSets,
        rows \in UNION {[1..n -> Features] : n \in 0..MaxFeatures}}

Number(k) == [numeric |-> TRUE, halves |-> k]
NotNumber == [numeric |-> FALSE, halves |-> 0]

\* The rows a CSV file is made of; the second has an identifier in lower
\* case and values outside [0, 100], the third a cell that is no number.
ScoreRows ==
    {[region_id |-> <<"M", "U", "P", "L">>, region_name |-> <<"P", "L">>,
      exposure |-> Number(140), vulnerability |-> Number(120),
      adaptation |-> Number(80)],
     [region_id |-> <<"m", "u", "p", "w", " ">>, region_name |-> <<"P", "W">>,
      exposure |-> Number(400), vulnerability |-> Number(1),
      adaptation |-> Number(-20)],
     [region_id |-> <<"M", "U", "M", "O">>, region_name |-> <<"M", "o", "k", "a">>,
      exposure |-> Number(100), vulnerability |-> Number(100),
      adaptation |-> NotNumber]}

ScoreRowWith(columns, row) ==
    [row EXCEPT !.region_name =
        IF "region_name" \in columns THEN row.region_name ELSE <<>>]

CsvColumns ==
    {"region_id", "region_name", "exposure", "vulnerability", "adaptation"}

CsvFiles ==
    {Unreadable,
     [readable |-> TRUE, columns |-> CsvColumns \ {"exposure"}, rows |-> <<>>]}
    \cup
    {[readable |-> TRUE, columns |-> columns,
      rows |-> [i \in 1..Len(rows) |-> ScoreRowWith(columns, rows[i])]] :
        columns \in {CsvColumns, CsvColumns \ {"region_name"}},
        rows \in UNION {[1..n -> ScoreRows] : n \in 0..MaxScoreRows}}

\* No SecurityAdvisor constructed, and no call made of one.
NoAdvisorCall ==
    [lat |-> 0, lon |-> 0, disaster_type |-> "", cyclone_severity |-> 0,
     seen |-> <<>>, region |-> [raised |-> None, nearest |-> 0, value |-> NoRegionData],
     safe_zones |-> <<>>, risk_zones |-> <<>>, reply |-> [kind |-> "", text |-> ""],
     raised |-> None, value |-> NoAdvice]
NoPrevCall == [made |-> FALSE, lat |-> 0, lon |-> 0, cyclone_severity |-> 0, seen |-> <<>>]
NoAdvisor ==
    [built |-> FALSE, region_coords |-> <<>>, base |-> <<>>,
     resilience_data |-> NoFrame, calls |-> 0, pc |-> "idle",
     call |-> NoAdvisorCall, prev |-> NoPrevCall]

\* No distance computed.
NoCdist == <<>>

\* The locations asked about, in ten-thousandths of a degree: Port Louis
\* itself, points as far from two regions as from each other, and a point
\* off Rodrigues.
QueryPoints ==
    {<<-201612, 575012>>, <<-204650, 573200>>, <<-204600, 573200>>,
     <<-204500, 573250>>, <<-204400, 577750>>, <<-197000, 634000>>}

\* cdist on the locations and the regions' coordinates.
CdistValues ==
    [k \in {<<q[1], q[2], RegionCoords[i].lat, RegionCoords[i].lon>> :
               q \in QueryPoints, i \in 1..Len(RegionCoords)} |->
        Euclidean(k[1], k[2], k[3], k[4])]

\* data/resilience_scores.csv as the advisors read it: exposure,
\* vulnerability and adaptation in halves.  The first file has regions of
\* every level, one of them with the score 60, a region the coordinates do
\* not know, and no row for Rodrigues; the second has regions at risk only.
ScoreRow(id, name, e, v, a) ==
    [region_id |-> id, region_name |-> name,
     exposure |-> e * HalvesPerUnit, vulnerability |-> v * HalvesPerUnit,
     adaptation |-> a * HalvesPerUnit]
ScoreTables ==
    {<<ScoreRow("MUPL", "Port Louis", 40, 40, 60),
       ScoreRow("MUMO", "Moka", 90, 90, 10),
       ScoreRow("MUFL", "Flacq", 20, 20, 80),
       ScoreRow("MUGP", "Grand Port", 60, 60, 40),
       ScoreRow("MUPW", "Plaines Wilhems", 70, 60, 40),
       ScoreRow("MUBL", "Black River", 40, 40, 60),
       ScoreRow("MUSA", "Savanne", 40, 40, 60),
       ScoreRow("MUPA", "Pamplemousses", 30, 40, 60),
       ScoreRow("MUXX", "Ailleurs", 20, 20, 80)>>,
     <<ScoreRow("MUPL", "Port Louis", 90, 90, 10),
       ScoreRow("MUPW", "Plaines Wilhems", 90, 90, 10),
       ScoreRow("MUBL", "Black River", 100, 90, 0)>>}

\* The coordinates an advisor has: those of __init__, or none when its
\* caller emptied the attribute.
CoordTables == {RegionCoords, <<>>}

DisasterTypes == {"cyclone", "inondation"}
\* The intensities of the slider asked about.
AdviceSeverities == {0, 30, 90}

\* SecurityAdvisor.__init__
SecurityAdvisorInit(table, coords) ==
    [built |-> TRUE, region_coords |-> coords, base |-> ReadScores(table).rows,
     resilience_data |-> ReadScores(table), calls |-> 0, pc |-> "idle",
     call |-> NoAdvisorCall, prev |-> NoPrevCall]

\* No ReportAI constructed, and no call made of one.
NoReport ==
    [made |-> FALSE, region_id |-> None, reply |-> [kind |-> "", text |-> ""],
     raised |-> None, context |-> <<>>, value |-> NoAdvice]
NoReporter == [built |-> FALSE, resilience_data |-> <<>>, last |-> NoReport]

\* ReportAI.__init__
ReportAIInit(table) ==
    [built |-> TRUE, resilience_data |-> LoadReportData(table), last |-> NoReport]

\* The regions a report is asked for: all of them (None), one of the
\* file, and one the file does not have.
ReportRegions == {None, "MUPL", "MUPW", "MURO"}

InitStore ==
    /\ file = AbsentFile
    /\ clock = 0
    /\ pc = [p \in Procs |-> "idle"]
    /\ call = [p \in Procs |-> NoCall]
    /\ locals = [p \in Procs |-> NoLocals]
    /\ ret = [p \in Procs |-> None]
    /\ nAppends = 0
    /\ calls = [op \in Ops |-> 0]
    /\ nAcked = 0
    /\ lastGood = <<>>
    /\ cand = [p \in Procs |-> {}]
    /\ seen = <<>>
    /\ sincePrune = NoPrune

\* No scoring function has been called and the caller holds no DataFrame.
ScoringIdle ==
    /\ dataframes = NoFrames
    /\ scoring = NoScoring
    /\ prevSim = NoSim

\* No data file is there, nothing was loaded and no advisor was built.
LoaderIdle ==
    /\ datafiles = NoDataFiles
    /\ loading = NoLoading

AiIdle ==
    /\ advisor = NoAdvisor
    /\ reporter = NoReporter
    /\ cdist = NoCdist

Init == InitStore /\ ScoringIdle /\ LoaderIdle /\ AiIdle

\* The store after one save_alert('r1', 'danger') at the first clock reading.
InitStored ==
    LET alerts == <<NewAlert(MakeId("r1", 0), "r1", "danger", 0)>>
    IN /\ file = Written(Truncated, alerts)
       /\ clock = 0
       /\ pc = [p \in Procs |-> "idle"]
       /\ call = [p \in Procs |-> NoCall]
       /\ locals = [p \in Procs |-> NoLocals]
       /\ ret = [p \in Procs |-> None]
       /\ nAppends = 1
       /\ calls = [op \in Ops |-> IF op = "save_alert" THEN 1 ELSE 0]
       /\ nAcked = 1
       /\ lastGood = alerts
       /\ cand = [p \in Procs |-> {}]
       /\ seen = alerts
       /\ sincePrune = NoPrune
       /\ ScoringIdle
       /\ LoaderIdle
       /\ AiIdle

\* The caller holds a DataFrame that was not scored yet.
InitBatch ==
    /\ InitStore
    /\ \E cols \in ColumnSets, factors \in Batches :
          dataframes = [NoFrames EXCEPT ![CallerDf] = NewFrame(cols, factors)]
    /\ scoring = NoScoring
    /\ prevSim = NoSim
    /\ LoaderIdle
    /\ AiIdle

\* The two data files are there, nothing was loaded yet.
InitLoad ==
    /\ InitStore
    /\ ScoringIdle
    /\ datafiles \in [geojson : GeojsonFiles, csv : CsvFiles]
    /\ loading = NoLoading
    /\ AiIdle

\* One of the two assistants is constructed on a score file (they share
\* nothing, and a behaviour follows one of them); the store, the scoring
\* functions and the loader are left alone.
InitAdvisor ==
    /\ cdist = CdistValues
    /\ InitStore
    /\ ScoringIdle
    /\ LoaderIdle
    /\ \/ /\ advisor \in {SecurityAdvisorInit(table, coords) :
                            table \in ScoreTables, coords \in CoordTables}
          /\ reporter = NoReporter
       \/ /\ advisor = NoAdvisor
          /\ reporter \in {ReportAIInit(table) : table \in ScoreTables}

(* ------------------------------ actions ------------------------------- *)

\* Whether a function was called, and for clear_old_alerts whether once or
\* more than once.
Called(op) ==
    [calls EXCEPT ![op] = IF calls[op] = 0 THEN 1
                          ELSE IF op = "clear_old_alerts" THEN 2 ELSE 1]

\* The lists the save_alert calls in their write are putting in the file.
Pending ==
    {locals[q].alerts : q \in {q \in Procs :
                        call[q].op = "save_alert" /\ pc[q] = "save_dump"}}

\* A write completed: the reading calls under way have one more complete
\* list that the file held during them.
Observed(good) ==
    [q \in Procs |-> IF Reading(call[q].op) /\ pc[q] # "done"
                      THEN cand[q] \cup {good} ELSE cand[q]]

Tick ==
    /\ clock < MaxTicks * TickSeconds
    /\ clock' = clock + TickSeconds
    /\ UNCHANGED <<file, pc, call, locals, ret, nAppends, calls, nAcked,
                   lastGood, cand, seen, sincePrune>>
    /\ UNCHANGED <<scoreVars, loadVars, aiVars>>

\* save_alert(region_id, alert_type) is called.
CallSaveAlert(p, regions, kinds, maxAppends) ==
    /\ pc[p] = "idle"
    /\ nAppends < maxAppends
    /\ \E r \in regions, k \in kinds :
          call' = [call EXCEPT ![p] = [NoCall EXCEPT !.op = "save_alert",
                                       !.region_id = r, !.alert_type = k]]
    /\ pc' = [pc EXCEPT ![p] = "init_exists"]
    /\ nAppends' = nAppends + 1
    /\ calls' = Called("save_alert")
    /\ sincePrune' = NoPrune
    /\ UNCHANGED <<file, clock, locals, ret, nAcked, lastGood, cand, seen>>
    /\ UNCHANGED <<scoreVars, loadVars, aiVars>>

\* get_region_alert_stats(region_id) is called.
CallStats(p, regions) ==
    /\ pc[p] = "idle"
    /\ \E r \in regions :
          call' = [call EXCEPT ![p] = [NoCall EXCEPT !.op = "get_region_alert_stats",
                                       !.region_id = r]]
    /\ pc' = [pc EXCEPT ![p] = "init_exists"]
    /\ calls' = Called("get_region_alert_stats")
    /\ cand' = [cand EXCEPT ![p] = {lastGood}]
    /\ UNCHANGED <<file, clock, locals, ret, nAppends, nAcked, lastGood,
                   seen, sincePrune>>
    /\ UNCHANGED <<scoreVars, loadVars, aiVars>>

\* get_all_alerts_summary(df) is called; the loop starts with the first id,
\* or, with no id, the merge runs at once.
CallSummary(p, frames) ==
    /\ pc[p] = "idle"
    /\ \E df \in frames :
          /\ call' = [call EXCEPT ![p] = [NoCall EXCEPT !.op = "get_all_alerts_summary",
                                          !.df = df]]
          /\ IF Unique(df) = <<>>
             THEN /\ pc' = [pc EXCEPT ![p] = "done"]
                  /\ ret' = [ret EXCEPT ![p] = MergeSummary(df, <<>>)]
                  /\ locals' = locals
             ELSE /\ pc' = [pc EXCEPT ![p] = "init_exists"]
                  /\ ret' = ret
                  /\ locals' = [locals EXCEPT ![p].i = 1]
    /\ calls' = Called("get_all_alerts_summary")
    /\ cand' = [cand EXCEPT ![p] = {lastGood}]
    /\ UNCHANGED <<file, clock, nAppends, nAcked, lastGood, seen, sincePrune>>
    /\ UNCHANGED <<scoreVars, loadVars, aiVars>>

\* clear_old_alerts(hours) is called.
CallClear(p, hours) ==
    /\ pc[p] = "idle"
    /\ \E h \in hours :
          call' = [call EXCEPT ![p] = [NoCall EXCEPT !.op = "clear_old_alerts",
                                       !.hours = h]]
    /\ pc' = [pc EXCEPT ![p] = "init_exists"]
    /\ calls' = Called("clear_old_alerts")
    /\ UNCHANGED <<file, clock, locals, ret, nAppends, nAcked, lastGood, cand,
                   seen, sincePrune>>
    /\ UNCHANGED <<scoreVars, loadVars, aiVars>>

\* initialize_alerts_file: Path(ALERTS_FILE).exists()
InitExists(p) ==
    /\ pc[p] = "init_exists"
    /\ pc' = [pc EXCEPT ![p] = IF file.exists THEN "load" ELSE "init_open"]
    /\ UNCHANGED <<file, clock, call, locals, ret, nAppends, calls, nAcked,
                   lastGood, cand, seen, sincePrune>>
    /\ UNCHANGED <<scoreVars, loadVars, aiVars>>

\* initialize_alerts_file: open(ALERTS_FILE, 'w')
InitOpen(p) ==
    /\ pc[p] = "init_open"
    /\ file' = Truncated
    /\ pc' = [pc EXCEPT ![p] = "init_dump"]
    /\ UNCHANGED <<clock, call, locals, ret, nAppends, calls, nAcked,
                   lastGood, cand, seen, sincePrune>>
    /\ UNCHANGED <<scoreVars, loadVars, aiVars>>

\* initialize_alerts_file: json.dump([], f) and the close
InitDump(p) ==
    /\ pc[p] = "init_dump"
    /\ file' = Written(file, <<>>)
    /\ lastGood' = GoodAfter(file', lastGood)
    /\ cand' = Observed(lastGood')
    /\ pc' = [pc EXCEPT ![p] = "load"]
    /\ UNCHANGED <<clock, call, locals, ret, nAppends, calls, nAcked,
                   seen, sincePrune>>
    /\ UNCHANGED <<scoreVars, loadVars, aiVars>>

\* load_alerts: the read, and what the caller does with the list up to its
\* next shared operation.
Load(p) ==
    /\ pc[p] = "load"
    /\ LET alerts == Loaded(file)
           op == call[p].op
       IN CASE op = "save_alert" ->
                 /\ locals' = [locals EXCEPT ![p].alerts = alerts]
                 /\ pc' = [pc EXCEPT ![p] = "new_alert"]
                 /\ UNCHANGED <<ret, cand>>
            [] op = "clear_old_alerts" ->
                 /\ locals' = [locals EXCEPT ![p].alerts = alerts]
                 /\ pc' = [pc EXCEPT ![p] = "cutoff"]
                 /\ UNCHANGED <<ret, cand>>
            [] op = "get_region_alert_stats" ->
                 /\ locals' = [locals EXCEPT ![p].alerts = alerts]
                 /\ ret' = [ret EXCEPT ![p] = RegionAlertStats(alerts, call[p].region_id)]
                 /\ cand' = [cand EXCEPT ![p] = cand[p] \cup Pending]
                 /\ pc' = [pc EXCEPT ![p] = "done"]
            [] op = "get_all_alerts_summary" ->
                 LET ids == Unique(call[p].df)
                     i == locals[p].i
                     data == Append(locals[p].alerts_data,
                                    SummaryEntry(ids[i], RegionAlertStats(alerts, ids[i])))
                 IN /\ cand' = [cand EXCEPT ![p] = cand[p] \cup Pending]
                    /\ IF i < Len(ids)
                       THEN /\ locals' = [locals EXCEPT ![p].alerts = alerts,
                                                        ![p].alerts_data = data,
                                                        ![p].i = i + 1]
                            /\ pc' = [pc EXCEPT ![p] = "init_exists"]
                            /\ ret' = ret
                       ELSE /\ locals' = [locals EXCEPT ![p].alerts = alerts,
                                                        ![p].alerts_data = data]
                            /\ pc' = [pc EXCEPT ![p] = "done"]
                            /\ ret' = [ret EXCEPT ![p] = MergeSummary(call[p].df, data)]
    /\ UNCHANGED <<file, clock, call, nAppends, calls, nAcked, lastGood,
                   seen, sincePrune>>
    /\ UNCHANGED <<scoreVars, loadVars, aiVars>>

\* save_alert: new_alert and the append.  The two datetime.now() readings
\* are taken back to back; the model's clock, which advances an hour at a
\* time, does not advance between them.
BuildAlert(p) ==
    /\ pc[p] = "new_alert"
    /\ locals' = [locals EXCEPT ![p].alerts =
                     Append(locals[p].alerts,
                            NewAlert(MakeId(call[p].region_id, clock),
                                     call[p].region_id, call[p].alert_type, clock))]
    /\ pc' = [pc EXCEPT ![p] = "save_open"]
    /\ UNCHANGED <<file, clock, call, ret, nAppends, calls, nAcked,
                   lastGood, cand, seen, sincePrune>>
    /\ UNCHANGED <<scoreVars, loadVars, aiVars>>

\* save_alert: open(ALERTS_FILE, 'w'); when it raises, return False
SaveOpen(p, outcomes) ==
    /\ pc[p] = "save_open"
    /\ \E ok \in outcomes :
          IF ok
          THEN /\ file' = Truncated
               /\ pc' = [pc EXCEPT ![p] = "save_dump"]
               /\ ret' = ret
          ELSE /\ file' = file
               /\ pc' = [pc EXCEPT ![p] = "done"]
               /\ ret' = [ret EXCEPT ![p] = FALSE]
    /\ UNCHANGED <<clock, call, locals, nAppends, calls, nAcked, lastGood,
                   cand, seen, sincePrune>>
    /\ UNCHANGED <<scoreVars, loadVars, aiVars>>

\* save_alert: json.dump(alerts, f, indent=2) and the close, return True;
\* when the write raises, the file keeps what reached it and is no JSON
\* document, return False
SaveDump(p, outcomes) ==
    /\ pc[p] = "save_dump"
    /\ \E ok \in outcomes :
          IF ok
          THEN /\ file' = Written(file, locals[p].alerts)
               /\ ret' = [ret EXCEPT ![p] = TRUE]
               /\ nAcked' = nAcked + 1
          ELSE /\ file' = [file EXCEPT !.json = FALSE, !.alerts = <<>>]
               /\ ret' = [ret EXCEPT ![p] = FALSE]
               /\ nAcked' = nAcked
    /\ lastGood' = GoodAfter(file', lastGood)
    /\ cand' = Observed(lastGood')
    /\ pc' = [pc EXCEPT ![p] = "done"]
    /\ UNCHANGED <<clock, call, locals, nAppends, calls, seen, sincePrune>>
    /\ UNCHANGED <<scoreVars, loadVars, aiVars>>

\* clear_old_alerts: the cutoff, from datetime.now(), and the filter
ClearCutoff(p) ==
    /\ pc[p] = "cutoff"
    /\ LET cutoff == Cutoff(clock, call[p].hours)
       IN locals' = [locals EXCEPT ![p].cutoff = cutoff,
                                   ![p].filtered = FilterRecent(locals[p].alerts, cutoff)]
    /\ pc' = [pc EXCEPT ![p] = "clear_open"]
    /\ UNCHANGED <<file, clock, call, ret, nAppends, calls, nAcked,
                   lastGood, cand, seen, sincePrune>>
    /\ UNCHANGED <<scoreVars, loadVars, aiVars>>

\* clear_old_alerts: open(ALERTS_FILE, 'w')
ClearOpen(p) ==
    /\ pc[p] = "clear_open"
    /\ file' = Truncated
    /\ pc' = [pc EXCEPT ![p] = "clear_dump"]
    /\ UNCHANGED <<clock, call, locals, ret, nAppends, calls, nAcked,
                   lastGood, cand, seen, sincePrune>>
    /\ UNCHANGED <<scoreVars, loadVars, aiVars>>

\* clear_old_alerts: json.dump(filtered, f, indent=2), the close, the return
ClearDump(p) ==
    /\ pc[p] = "clear_dump"
    /\ file' = Written(file, locals[p].filtered)
    /\ lastGood' = GoodAfter(file', lastGood)
    /\ ret' = [ret EXCEPT ![p] = ClearedCount(locals[p].alerts, locals[p].filtered)]
    /\ cand' = Observed(lastGood')
    /\ pc' = [pc EXCEPT ![p] = "done"]
    /\ UNCHANGED <<clock, call, locals, nAppends, calls, nAcked, seen,
                   sincePrune>>
    /\ UNCHANGED <<scoreVars, loadVars, aiVars>>

\* The caller takes the result.
Return(p) ==
    /\ pc[p] = "done"
    /\ pc' = [pc EXCEPT ![p] = "idle"]
    /\ call' = [call EXCEPT ![p] = NoCall]
    /\ locals' = [locals EXCEPT ![p] = NoLocals]
    /\ ret' = [ret EXCEPT ![p] = None]
    /\ cand' = [cand EXCEPT ![p] = {}]
    /\ seen' = Loaded(file)
    /\ sincePrune' =
          IF call[p].op = "clear_old_alerts"
          THEN [valid |-> TRUE, hours |-> call[p].hours, alerts |-> Loaded(file)]
          ELSE sincePrune
    /\ UNCHANGED <<file, clock, nAppends, calls, nAcked, lastGood>>
    /\ UNCHANGED <<scoreVars, loadVars, aiVars>>

(* ------------------------ actions of the scoring ---------------------- *)

\* calculate_resilience(exposure, vulnerability, adaptation)
CalcResilience(args) ==
    /\ scoring = NoScoring
    /\ \E e \in args, v \in args, a \in args :
          scoring' = [NoScoring EXCEPT !.op = "calculate_resilience",
                                       !.args = <<e, v, a>>,
                                       !.value = CalculateResilience(e, v, a)]
    /\ UNCHANGED <<dataframes, prevSim>>
    /\ UNCHANGED <<storeVars, loadVars, aiVars>>

\* get_resilience_category(score)
GetCategory(scores) ==
    /\ scoring = NoScoring
    /\ \E score \in scores :
          scoring' = [NoScoring EXCEPT !.op = "get_resilience_category",
                                       !.args = <<score>>,
                                       !.category = GetResilienceCategory(score)]
    /\ UNCHANGED <<dataframes, prevSim>>
    /\ UNCHANGED <<storeVars, loadVars, aiVars>>

\* The caller takes the number or the category returned.
TakeResult ==
    /\ scoring.op \in {"calculate_resilience", "get_resilience_category"}
    /\ scoring' = NoScoring
    /\ UNCHANGED <<dataframes, prevSim>>
    /\ UNCHANGED <<storeVars, loadVars, aiVars>>

\* calculate_resilience_batch(df), of the caller's DataFrame
ScoreBatch ==
    /\ dataframes[CallerDf].live
    /\ LET r == CalculateResilienceBatch(Dropped(dataframes), CallerDf)
       IN /\ dataframes' = r.frames
          /\ scoring' = [NoScoring EXCEPT !.op = "calculate_resilience_batch",
                                          !.raised = r.raised,
                                          !.value = r.value,
                                          !.given = dataframes[CallerDf]]
    /\ UNCHANGED prevSim
    /\ UNCHANGED <<storeVars, loadVars, aiVars>>

\* simulate_cyclone_impact(df, severity), of the caller's DataFrame
Simulate(severities) ==
    /\ dataframes[CallerDf].live
    /\ \E severity \in severities :
          LET r == SimulateCycloneImpact(Dropped(dataframes), CallerDf, severity)
          IN /\ dataframes' = r.frames
             /\ scoring' = [NoScoring EXCEPT !.op = "simulate_cyclone_impact",
                                             !.args = <<severity>>,
                                             !.raised = r.raised,
                                             !.value = r.value,
                                             !.given = dataframes[CallerDf]]
    /\ prevSim' =
          IF scoring.op = "simulate_cyclone_impact" /\ scoring.raised = None
          THEN [valid |-> TRUE, severity |-> scoring.args[1],
                rows |-> dataframes[scoring.value].rows]
          ELSE prevSim
    /\ UNCHANGED <<storeVars, loadVars, aiVars>>

\* load_base_data: df = calculate_resilience_batch(df); the scored frame is
\* the caller's DataFrame from then on.
Rebind ==
    /\ scoring.op = "calculate_resilience_batch"
    /\ scoring.raised = None
    /\ dataframes' = [NoFrames EXCEPT ![CallerDf] = dataframes[scoring.value]]
    /\ scoring' = NoScoring
    /\ prevSim' = NoSim
    /\ UNCHANGED <<storeVars, loadVars, aiVars>>

(* ------------------------ actions of the loader ----------------------- *)

\* merge_data()
CallMergeData ==
    /\ loading = NoLoading
    /\ loading' = [NoLoading EXCEPT !.op = "merge_data",
                                    !.merge = MergeData(datafiles),
                                    !.value = MergeData(datafiles).frame]
    /\ UNCHANGED <<datafiles, storeVars, scoreVars, aiVars>>

\* load_base_data()
CallLoadBaseData ==
    /\ loading = NoLoading
    /\ LET r == LoadBaseData(datafiles)
       IN loading' = [op |-> "load_base_data",
                      merge |-> MergeData(datafiles),
                      given |-> r.given,
                      caught |-> r.caught,
                      value |-> r.value]
    /\ UNCHANGED <<datafiles, storeVars, scoreVars, aiVars>>

\* The caller takes what the loader returned.
TakeLoaded ==
    /\ loading.op # None
    /\ loading' = NoLoading
    /\ UNCHANGED <<datafiles, storeVars, scoreVars, aiVars>>

\* get_advice_for_location(lat, lon, disaster_type, cyclone_severity) for a
\* location and a disaster type of the sets given, up to the call of the
\* service: the frame simulated is stored, the region looked up, and either
\* the call is over (an exception, or the generic advice) or the service is
\* asked.
GetAdviceForLocation(locations, disaster_types, cyclone_severity) ==
    /\ advisor.built
    /\ advisor.pc \in {"idle", "done"}
    /\ advisor.calls < MaxCalls
    /\ \E sim \in {IF cyclone_severity > 0
                   THEN Simulated(advisor.resilience_data, cyclone_severity)
                   ELSE [raised |-> None, df |-> advisor.resilience_data]} :
       \E q \in locations, disaster_type \in disaster_types :
       \E region \in {IF sim.raised # None
                      THEN [raised |-> sim.raised, nearest |-> 0, value |-> NoRegionData]
                      ELSE FindNearestRegion([region_coords |-> advisor.region_coords,
                                              resilience_data |-> sim.df],
                                             q[1], q[2])} :
          LET lat == q[1]
              lon == q[2]
              self == [region_coords |-> advisor.region_coords, resilience_data |-> sim.df]
              found == region.raised = None /\ region.value.found
          IN advisor' =
               [built           |-> TRUE,
                region_coords   |-> advisor.region_coords,
                base            |-> advisor.base,
                resilience_data |-> sim.df,
                calls           |-> advisor.calls + 1,
                pc              |-> IF found THEN "service" ELSE "done",
                call |-> [lat |-> lat, lon |-> lon, disaster_type |-> disaster_type,
                          cyclone_severity |-> cyclone_severity,
                          seen |-> sim.df.rows,
                          region |-> region,
                          safe_zones |-> IF found
                                         THEN FindSafeZones(self, lat, lon,
                                                            region.value.region_id)
                                         ELSE <<>>,
                          risk_zones |-> IF found THEN FindRiskZones(self) ELSE <<>>,
                          reply |-> NoAdvisorCall.reply,
                          raised |-> region.raised,
                          value |-> IF region.raised = None /\ ~ found
                                    THEN GenerateGenericAdvice(disaster_type)
                                    ELSE NoAdvice],
                prev |-> IF advisor.calls = 0 THEN NoPrevCall
                         ELSE [made |-> TRUE, lat |-> advisor.call.lat,
                               lon |-> advisor.call.lon,
                               cyclone_severity |-> advisor.call.cyclone_severity,
                               seen |-> advisor.call.seen]]
    /\ UNCHANGED <<storeVars, scoreVars, loadVars, reporter, cdist>>

\* The service answers and get_advice_for_location returns.
AdviceServiceReplies(reply) ==
    /\ advisor.pc = "service"
    /\ LET c == advisor.call
           advice == CallGeminiForAdvice(c.region.value, c.disaster_type, c.safe_zones,
                                         c.cyclone_severity, reply)
       IN advisor' =
            [built           |-> TRUE,
             region_coords   |-> advisor.region_coords,
             base            |-> advisor.base,
             resilience_data |-> advisor.resilience_data,
             calls           |-> advisor.calls,
             pc              |-> "done",
             call |-> [lat |-> c.lat, lon |-> c.lon, disaster_type |-> c.disaster_type,
                       cyclone_severity |-> c.cyclone_severity,
                       seen |-> c.seen, region |-> c.region,
                       safe_zones |-> c.safe_zones, risk_zones |-> c.risk_zones,
                       reply |-> reply,
                       raised |-> advice.raised,
                       value |-> advice.value],
             prev |-> advisor.prev]
    /\ UNCHANGED <<storeVars, scoreVars, loadVars, reporter, cdist>>

\* generate_security_advice(region_id), the service answering reply.
CallGenerateSecurityAdvice(region_id, reply) ==
    /\ reporter.built
    /\ LET r == GenerateSecurityAdvice(reporter, region_id, reply)
       IN reporter' =
            [built |-> TRUE, resilience_data |-> reporter.resilience_data,
             last |-> [made |-> TRUE, region_id |-> region_id, reply |-> reply,
                       raised |-> r.raised, context |-> r.context, value |-> r.value]]
    /\ UNCHANGED <<storeVars, scoreVars, loadVars, advisor, cdist>>

(* --------------------------- specifications --------------------------- *)

\* Two sessions at once, all about one region; every write succeeds.
Next ==
    \/ Tick
    \/ \E p \in Procs :
          \/ CallSaveAlert(p, {"r1"}, {"danger"}, MaxAppends)
          \/ CallStats(p, {"r1"})
          \/ CallSummary(p, {<<"r1">>})
          \/ CallClear(p, {1})
          \/ InitExists(p)
          \/ InitOpen(p)
          \/ InitDump(p)
          \/ Load(p)
          \/ BuildAlert(p)
          \/ SaveOpen(p, {TRUE})
          \/ SaveDump(p, {TRUE})
          \/ ClearCutoff(p)
          \/ ClearOpen(p)
          \/ ClearDump(p)
          \/ Return(p)

\* From a fresh start (no file yet) or from a store holding a report.
Spec == (Init \/ InitStored) /\ [][Next]_vars

\* One session, one call after the other; a write of save_alert may fail.
NextSeq ==
    \/ Tick
    \/ CallSaveAlert(1, Regions, Kinds, MaxAppendsSeq)
    \/ CallStats(1, Regions)
    \/ CallSummary(1, Frames)
    \/ CallClear(1, Hours)
    \/ InitExists(1)
    \/ InitOpen(1)
    \/ InitDump(1)
    \/ Load(1)
    \/ BuildAlert(1)
    \/ SaveOpen(1, BOOLEAN)
    \/ SaveDump(1, BOOLEAN)
    \/ ClearCutoff(1)
    \/ ClearOpen(1)
    \/ ClearDump(1)
    \/ Return(1)

SpecSeq == Init /\ [][NextSeq]_vars

\* The scoring functions of one value: calculate_resilience and
\* get_resilience_category.
NextScore ==
    \/ CalcResilience(ArgHalves)
    \/ GetCategory(Scores)
    \/ TakeResult

SpecScore == Init /\ [][NextScore]_vars

\* The functions of a DataFrame, called one after the other on the frame the
\* caller holds.
NextBatch ==
    \/ ScoreBatch
    \/ Simulate(Severities)
    \/ Rebind

SpecBatch == InitBatch /\ [][NextBatch]_vars

\* The loader alone: merge_data and load_base_data on the two data files.
NextLoad ==
    \/ CallMergeData
    \/ CallLoadBaseData
    \/ TakeLoaded

SpecLoad == InitLoad /\ [][NextLoad]_vars

\* The assistants alone: advice for locations and reports for regions.
NextAdvisor ==
    \/ \E cyclone_severity \in AdviceSeverities :
          GetAdviceForLocation(QueryPoints, DisasterTypes, cyclone_severity)
    \/ \E reply \in Replies : AdviceServiceReplies(reply)
    \/ \E region_id \in ReportRegions, reply \in Replies :
          CallGenerateSecurityAdvice(region_id, reply)

SpecAdvisor == InitAdvisor /\ [][NextAdvisor]_vars

(* ------------------------------ claims -------------------------------- *)

Quiescent == \A p \in Procs : pc[p] = "idle"

\* The list a reader of the file gets now.
Log == Loaded(file)

Occurrences(s, x) == Cardinality({i \in 1..Len(s) : s[i] = x})

OnlyCalled(ops) == \A op \in Ops \ ops : calls[op] = 0

IsPrefix(s, t) == Len(s) <= Len(t) /\ SubSeq(t, 1, Len(s)) = s

\* C1: when only save_alert has been called, every call has returned and
\* each returned True, the file holds one report for each of the calls: no
\* successful append is lost to another append.
C1_NoLostAppend ==
    (Quiescent /\ OnlyCalled({"save_alert"}) /\ nAcked = nAppends)
    => Len(Log) = nAcked

\* C2: one save_alert and one clear_old_alerts(1) have run, both
\* within the clock reading at which the report was made (so the report is
\* less than an hour old at every prune's start): the report is in the file
\* once both have returned.
C2_AppendSurvivesPrune ==
    (Quiescent /\ OnlyCalled({"save_alert", "clear_old_alerts"})
       /\ nAppends = 1 /\ nAcked = 1 /\ calls["clear_old_alerts"] = 1 /\ clock = 0)
    => Len(Log) = 1

\* C3: the counts get_region_alert_stats returns, while save_alert calls run
\* beside it, are those of a complete list: the last one the file held
\* before the read or the one a save_alert was writing at the read.
C3_NoTornRead ==
    \A p \in Procs :
       (pc[p] = "done" /\ call[p].op = "get_region_alert_stats"
          /\ OnlyCalled({"save_alert", "get_region_alert_stats"}))
       => \E s \in cand[p] : ret[p] = RegionAlertStats(s, call[p].region_id)

\* C4: as long as clear_old_alerts was never called, when a call returns the
\* file holds every report it held when the previous call returned,
\* unchanged and in the same order, before any new one.
C4_AppendOnly ==
    (pc[1] = "done" /\ calls["clear_old_alerts"] = 0)
    => IsPrefix(seen, Log)

\* C5: save_alert with a type other than danger and safe does not return
\* True and leaves the file as it was, and every report in the file has
\* type danger or safe.
C5_KindValidated ==
    /\ (pc[1] = "done" /\ call[1].op = "save_alert"
          /\ call[1].alert_type \notin {"danger", "safe"})
       => (ret[1] = FALSE /\ Log = seen)
    /\ \A i \in 1..Len(Log) : Log[i].type \in {"danger", "safe"}

\* C6: no two reports in the file have the same id.
C6_UniqueIds ==
    \A i, j \in 1..Len(Log) : i # j => Log[i].id # Log[j].id

\* The number of reports of a region and a kind, counted report by report.
CountOf(alerts, region_id, kind) ==
    Cardinality({i \in 1..Len(alerts) :
                    alerts[i].region_id = region_id /\ alerts[i].type = kind})

\* C7: get_region_alert_stats returns the number of the region's danger
\* reports, the number of its safe reports, their sum as the total, and
\* danger / total (0 when the total is 0).
C7_StatsCountKinds ==
    (pc[1] = "done" /\ call[1].op = "get_region_alert_stats")
    => LET d == CountOf(Log, call[1].region_id, "danger")
           s == CountOf(Log, call[1].region_id, "safe")
       IN /\ ret[1].danger_count = d
          /\ ret[1].safe_count = s
          /\ ret[1].total_count = d + s
          /\ ret[1].danger_ratio[1] * (d + s) = d * ret[1].danger_ratio[2]
          /\ (d + s = 0 => ret[1].danger_ratio = <<0, 1>>)

\* C7, on files whose reports are all of type danger or safe: the counts,
\* the total and the ratio are as C7 states.
C7_CountsOnValidKinds ==
    (\A i \in 1..Len(Log) : Log[i].type \in {"danger", "safe"})
    => C7_StatsCountKinds

\* The clock reading a clear_old_alerts call took, and a report's age then.
PruneNow(p) == locals[p].cutoff + call[p].hours * SecondsPerHour

AgeAt(a, now) == now - FromIsoFormat(a.timestamp)

SecondPrune ==
    /\ pc[1] = "done"
    /\ call[1].op = "clear_old_alerts"
    /\ sincePrune.valid
    /\ sincePrune.hours = call[1].hours

C9_PruneRemovesOlder ==
    (pc[1] = "done" /\ call[1].op = "clear_old_alerts")
    => /\ Log = SelectSeq(seen, LAMBDA a :
                   ~ (AgeAt(a, PruneNow(1)) > call[1].hours * SecondsPerHour))
       /\ ret[1] = Len(seen) - Len(Log)

\* C9, with "has reached" for "exceeds": clear_old_alerts(h) removes exactly
\* the reports whose age is h hours or more.
C9_PruneRemovesAtLeast ==
    (pc[1] = "done" /\ call[1].op = "clear_old_alerts")
    => /\ Log = SelectSeq(seen, LAMBDA a :
                   ~ (AgeAt(a, PruneNow(1)) >= call[1].hours * SecondsPerHour))
       /\ ret[1] = Len(seen) - Len(Log)

InUnitRange(k) == 0 <= k /\ k <= 100 * HalvesPerUnit

ClampArg(k) ==
    IF k < 0 THEN 0 ELSE IF k > 100 * HalvesPerUnit THEN 100 * HalvesPerUnit ELSE k

\* clamp(100 - (0.45 E + 0.35 V - 0.20 A), 0, 100) in exact arithmetic, as a
\* number of two-hundredths, of arguments in halves.
ExactIndex(e, v, a) ==
    LET x == 100 * 200 - (45 * e + 35 * v - 20 * a)
    IN IF x < 0 THEN 0 ELSE IF x > 100 * 200 THEN 100 * 200 ELSE x

\* q hundredths is x two-hundredths rounded to two decimals: x itself, or
\* one of its two neighbours when x lies half way between them.
RoundsTo(q, x) == 2 * q - x \in {-1, 0, 1}

\* The rows of the DataFrame the last call returned.
ResultRows == dataframes[scoring.value].rows

Returned(op) == scoring.op = op /\ scoring.raised = None

\* C11: for exposure, vulnerability and adaptation in [0, 100],
\* calculate_resilience returns a number in [0, 100] that is
\* clamp(100 - (0.45 E + 0.35 V - 0.20 A), 0, 100) rounded to two decimals.
C11_ScoreInRangeAndRounded ==
    (scoring.op = "calculate_resilience"
       /\ \A i \in 1..3 : InUnitRange(scoring.args[i]))
    => /\ 0 <= scoring.value
       /\ scoring.value <= 100 * HundredthsPerUnit
       /\ RoundsTo(scoring.value,
                   ExactIndex(scoring.args[1], scoring.args[2], scoring.args[3]))

\* C11's case: calculate_resilience(0.5, 0, 1), whose exact value 99.975
\* lies half way between two numbers of two decimals.
C11_Witness ==
    /\ scoring.op = "calculate_resilience"
    /\ scoring.args = <<1, 0, 2>>
    /\ scoring.value = 9997

\* C12: calculate_resilience returns for any arguments what it returns for
\* the arguments clamped to [0, 100].
C12_InputsClamped ==
    scoring.op = "calculate_resilience"
    => scoring.value = CalculateResilience(ClampArg(scoring.args[1]),
                                           ClampArg(scoring.args[2]),
                                           ClampArg(scoring.args[3]))

\* The category of the four ranges critical [0, 30), low [30, 50),
\* medium [50, 70), high [70, 100], of a score in hundredths.
FourTierCategory(score) ==
    IF score < 30 * HundredthsPerUnit THEN "critical"
    ELSE IF score < 50 * HundredthsPerUnit THEN "low"
    ELSE IF score < 70 * HundredthsPerUnit THEN "medium"
    ELSE "high"

\* C13: get_resilience_category maps every score in [0, 100] to the category
\* of the ranges critical [0, 30), low [30, 50), medium [50, 70),
\* high [70, 100].
C13_FourTiers ==
    (scoring.op = "get_resilience_category"
       /\ 0 <= scoring.args[1] /\ scoring.args[1] <= 100 * HundredthsPerUnit)
    => scoring.category = FourTierCategory(scoring.args[1])

\* C13, the part on totality: every score in [0, 100] gets a category, the
\* ranges being contiguous (those of the configuration).
C13_TotalOnConfiguredTiers ==
    (scoring.op = "get_resilience_category"
       /\ 0 <= scoring.args[1] /\ scoring.args[1] <= 100 * HundredthsPerUnit)
    => /\ scoring.category \in {"low", "medium", "high"}
       /\ scoring.category = "low" <=> scoring.args[1] < 40 * HundredthsPerUnit
       /\ scoring.category = "high" <=> scoring.args[1] >= 70 * HundredthsPerUnit

\* C14: calculate_resilience_batch returns as many rows as it was given, in
\* the same order, each with the resilience_index calculate_resilience
\* returns for the row's exposure, vulnerability and adaptation.
C14_BatchMatchesScoreOne ==
    Returned("calculate_resilience_batch")
    => /\ Len(ResultRows) = Len(scoring.given.rows)
       /\ \A i \in 1..Len(ResultRows) :
             /\ ResultRows[i].region_id = scoring.given.rows[i].region_id
             /\ ResultRows[i].resilience_index =
                   CalculateResilience(scoring.given.rows[i].exposure,
                                       scoring.given.rows[i].vulnerability,
                                       scoring.given.rows[i].adaptation)

\* C14, up to the rounding of a value half way between two numbers of two
\* decimals: the rows, their order and the index as the formula gives it.
C14_BatchMatchesFormula ==
    Returned("calculate_resilience_batch")
    => /\ Len(ResultRows) = Len(scoring.given.rows)
       /\ \A i \in 1..Len(ResultRows) :
             /\ ResultRows[i].region_id = scoring.given.rows[i].region_id
             /\ RoundsTo(ResultRows[i].resilience_index,
                         ExactIndex(scoring.given.rows[i].exposure,
                                    scoring.given.rows[i].vulnerability,
                                    scoring.given.rows[i].adaptation))

\* C15: calculate_resilience_batch of a DataFrame lacking exposure,
\* vulnerability or adaptation raises, returns no DataFrame, and no
\* DataFrame is left with a resilience_index column it did not have.
C15_MissingColumnRaises ==
    (scoring.op = "calculate_resilience_batch"
       /\ ~ (FactorColumns \subseteq scoring.given.cols))
    => /\ scoring.raised # None
       /\ scoring.value = 0
       /\ \A id \in FrameIds : "resilience_index" \notin dataframes[id].cols

\* C15's case: a DataFrame with rows and without the adaptation column.
C15_Witness ==
    /\ scoring.op = "calculate_resilience_batch"
    /\ scoring.given.cols = {"region_id", "region_name", "exposure", "vulnerability"}
    /\ Len(scoring.given.rows) = MaxRows
    /\ scoring.raised = "ValueError"

\* C16: calculate_resilience_batch and simulate_cyclone_impact leave the
\* caller's DataFrame as it was (every column of every row, exposure and an
\* existing resilience_index included) and return another object.
C16_InputUnchanged ==
    scoring.op \in {"calculate_resilience_batch", "simulate_cyclone_impact"}
    => /\ dataframes[CallerDf] = scoring.given
       /\ scoring.raised = None => scoring.value # CallerDf

\* C16's case: a simulation that raised the exposure of a scored DataFrame.
C16_Witness ==
    /\ Returned("simulate_cyclone_impact")
    /\ "resilience_index" \in scoring.given.cols
    /\ Len(ResultRows) > 0
    /\ ResultRows[1].exposure > scoring.given.rows[1].exposure
    /\ ResultRows[1].resilience_index < scoring.given.rows[1].resilience_index

\* C17: simulate_cyclone_impact with a severity outside [0, 100] raises,
\* returns no DataFrame and leaves the caller's as it was; with a severity
\* inside [0, 100] and the three factor columns present it does not raise.
C17_SeverityRange ==
    scoring.op = "simulate_cyclone_impact"
    => /\ ~ (0 <= scoring.args[1] /\ scoring.args[1] <= 100)
            => /\ scoring.raised = "ValueError"
               /\ scoring.value = 0
               /\ dataframes[CallerDf] = scoring.given
       /\ (0 <= scoring.args[1] /\ scoring.args[1] <= 100
             /\ FactorColumns \subseteq scoring.given.cols)
            => /\ scoring.raised = None
               /\ scoring.value # 0

\* C17's case: severity 101 on a DataFrame with rows and the three columns.
C17_Witness ==
    /\ scoring.op = "simulate_cyclone_impact"
    /\ scoring.args = <<101>>
    /\ FactorColumns \subseteq scoring.given.cols
    /\ Len(scoring.given.rows) > 0
    /\ scoring.raised = "ValueError"

\* C18: for a severity s in [0, 100], simulate_cyclone_impact returns one row
\* per row given, with exposure clamp(exposure + 0.5 s, 0, 100), with
\* region_id, region_name, vulnerability and adaptation as given, and with
\* for resilience_index the score of the new exposure and the given
\* vulnerability and adaptation.
C18_SimulationRows ==
    Returned("simulate_cyclone_impact")
    => /\ Len(ResultRows) = Len(scoring.given.rows)
       /\ \A i \in 1..Len(ResultRows) :
             LET old == scoring.given.rows[i]
                 new == ResultRows[i]
             IN /\ new.exposure = ClampArg(old.exposure + scoring.args[1])
                /\ new.region_id = old.region_id
                /\ new.region_name = old.region_name
                /\ new.vulnerability = old.vulnerability
                /\ new.adaptation = old.adaptation
                /\ new.resilience_index =
                      CalculateResilience(new.exposure, old.vulnerability,
                                          old.adaptation)

\* C18, up to the rounding of a value half way between two numbers of two
\* decimals: the index as the formula gives it for the new exposure.
C18_SimulationRowsByFormula ==
    Returned("simulate_cyclone_impact")
    => /\ Len(ResultRows) = Len(scoring.given.rows)
       /\ \A i \in 1..Len(ResultRows) :
             LET old == scoring.given.rows[i]
                 new == ResultRows[i]
             IN /\ new.exposure = ClampArg(old.exposure + scoring.args[1])
                /\ new.region_id = old.region_id
                /\ new.region_name = old.region_name
                /\ new.vulnerability = old.vulnerability
                /\ new.adaptation = old.adaptation
                /\ RoundsTo(new.resilience_index,
                            ExactIndex(new.exposure, old.vulnerability, old.adaptation))

\* C18's case: severity 50 on a row of exposure 70, vulnerability 60 and
\* adaptation 40: exposure 95 and index 44.25.
C18_Witness ==
    /\ Returned("simulate_cyclone_impact")
    /\ scoring.args = <<50>>
    /\ Len(ResultRows) > 0
    /\ scoring.given.rows[1].exposure = 140
    /\ scoring.given.rows[1].vulnerability = 120
    /\ scoring.given.rows[1].adaptation = 80
    /\ ResultRows[1].exposure = 190
    /\ ResultRows[1].resilience_index = 4425

\* C19: simulate_cyclone_impact(df, 0) of a scored DataFrame returns rows
\* with the exposure and the resilience_index of df's rows.
C19_ZeroSeverityNoOp ==
    (Returned("simulate_cyclone_impact")
       /\ scoring.args[1] = 0
       /\ "resilience_index" \in scoring.given.cols)
    => /\ Len(ResultRows) = Len(scoring.given.rows)
       /\ \A i \in 1..Len(ResultRows) :
             /\ ResultRows[i].exposure = scoring.given.rows[i].exposure
             /\ ResultRows[i].resilience_index =
                   scoring.given.rows[i].resilience_index

\* C19's case: severity 0 on a scored DataFrame whose first row has
\* exposure 0.5 and index 99.98.
C19_Witness ==
    /\ Returned("simulate_cyclone_impact")
    /\ scoring.args = <<0>>
    /\ "resilience_index" \in scoring.given.cols
    /\ Len(ResultRows) = MaxRows
    /\ ResultRows[1].exposure = 1
    /\ ResultRows[1].resilience_index = 9998

\* C20: of two simulations of the same DataFrame, the one with the greater
\* severity gives every row an exposure at least as great and a
\* resilience_index at most as great.
C20_MonotonicInSeverity ==
    (Returned("simulate_cyclone_impact") /\ prevSim.valid)
    => \A i \in 1..Len(ResultRows) :
          /\ prevSim.severity < scoring.args[1]
                => /\ ResultRows[i].exposure >= prevSim.rows[i].exposure
                   /\ ResultRows[i].resilience_index <= prevSim.rows[i].resilience_index
          /\ prevSim.severity > scoring.args[1]
                => /\ ResultRows[i].exposure <= prevSim.rows[i].exposure
                   /\ ResultRows[i].resilience_index >= prevSim.rows[i].resilience_index

\* C20's case: severity 1 then severity 50 on the same DataFrame, the first
\* row's exposure rising and its index falling.
C20_Witness ==
    /\ Returned("simulate_cyclone_impact")
    /\ prevSim.valid
    /\ prevSim.severity = 1
    /\ scoring.args = <<50>>
    /\ Len(ResultRows) > 0
    /\ ResultRows[1].exposure > prevSim.rows[1].exposure
    /\ ResultRows[1].resilience_index < prevSim.rows[1].resilience_index

\* The category of RESILIENCE_THRESHOLDS with the lowest range.
LowestCategory ==
    RESILIENCE_THRESHOLDS[CHOOSE i \in 1..Len(RESILIENCE_THRESHOLDS) :
        \A j \in 1..Len(RESILIENCE_THRESHOLDS) :
            RESILIENCE_THRESHOLDS[i].min_val <= RESILIENCE_THRESHOLDS[j].min_val].category

\* C28: every DataFrame returned by calculate_resilience_batch or by
\* simulate_cyclone_impact has a category column, and each row's category
\* is get_resilience_category of the row's resilience_index.
C28_CategoryOfIndex ==
    (Returned("calculate_resilience_batch") \/ Returned("simulate_cyclone_impact"))
    => /\ "category" \in dataframes[scoring.value].cols
       /\ \A i \in 1..Len(ResultRows) :
             ResultRows[i].category =
                GetResilienceCategory(ResultRows[i].resilience_index)

\* C28, what the returned DataFrames do have: the columns given and
\* resilience_index, and no category.
C28_IndexColumnOnly ==
    (Returned("calculate_resilience_batch") \/ Returned("simulate_cyclone_impact"))
    => dataframes[scoring.value].cols = scoring.given.cols \cup {"resilience_index"}

\* C30: get_resilience_category raises nothing, and a score below 0 or
\* above 100 gets the lowest category.
C30_UnmatchedScoreLowest ==
    (scoring.op = "get_resilience_category"
       /\ (scoring.args[1] < 0 \/ scoring.args[1] > 100 * HundredthsPerUnit))
    => /\ scoring.raised = None
       /\ scoring.category = LowestCategory

\* C30's case: the score 100.01.
C30_Witness ==
    /\ scoring.op = "get_resilience_category"
    /\ scoring.args = <<100 * HundredthsPerUnit + 1>>
    /\ scoring.category = "low"

(* ------------------------ claims on the loader ------------------------ *)

\* What the two loaders make of the data files.
LoadedRegions == LoadRegionsGeojson(datafiles.geojson)
LoadedScores == LoadResilienceData(datafiles.csv)

\* merge_data or load_base_data was called and both sources gave rows.
MergedBoth ==
    /\ loading.op # None
    /\ Len(LoadedRegions.rows) > 0
    /\ Len(LoadedScores.rows) > 0

\* C24: when the GeoJSON features carry no region_id, so that the
\* identifiers are the generated TEMP_ ones, merge_data returns as many
\* rows as the shorter source has, row i with the region_id, exposure,
\* vulnerability and adaptation of row i of the scores and the geometry of
\* region i, and reports the mismatch of the lengths.
C24_PositionalMerge ==
    (MergedBoth /\ "region_id" \notin datafiles.geojson.columns)
    => LET out == loading.merge.frame.rows
       IN /\ Len(out) = Min(Len(LoadedRegions.rows), Len(LoadedScores.rows))
          /\ \A i \in 1..Len(out) :
                /\ out[i].region_id = LoadedScores.rows[i].region_id
                /\ out[i].exposure = LoadedScores.rows[i].exposure
                /\ out[i].vulnerability = LoadedScores.rows[i].vulnerability
                /\ out[i].adaptation = LoadedScores.rows[i].adaptation
                /\ out[i].geometry = LoadedRegions.rows[i].geometry
          /\ loading.merge.mismatch
                <=> Len(LoadedRegions.rows) # Len(LoadedScores.rows)

\* C24's case: three features without properties and three rows of scores
\* give three rows.
C24_Witness ==
    /\ loading.op = "merge_data"
    /\ datafiles.geojson.columns = {}
    /\ Len(LoadedRegions.rows) = 3
    /\ Len(LoadedScores.rows) = 3
    /\ Len(loading.merge.frame.rows) = 3
    /\ loading.merge.frame.rows[2].region_id = LoadedScores.rows[2].region_id
    /\ loading.merge.frame.rows[2].exposure = 100 * HalvesPerUnit

\* The identifiers of a frame's rows, normalized.
NormalizedIds(frame) ==
    {NormalizeId(frame.rows[i].region_id) : i \in 1..Len(frame.rows)}

\* The rows of a frame whose normalized identifier is none of ids.
Unmatched(frame, ids) ==
    Cardinality({i \in 1..Len(frame.rows) :
                    NormalizeId(frame.rows[i].region_id) \notin ids})

\* C25: when the features carry a region_id, the rows merge_data returns
\* are those of the regions whose identifier, trimmed and in upper case, is
\* in both sources, and the numbers it reports as lost are the numbers of
\* rows of each source without a match in the other.
C25_IdentifierMerge ==
    (MergedBoth /\ "region_id" \in datafiles.geojson.columns)
    => /\ {loading.merge.frame.rows[i].region_id :
               i \in 1..Len(loading.merge.frame.rows)}
            = NormalizedIds(LoadedRegions) \cap NormalizedIds(LoadedScores)
       /\ loading.merge.lost_geom
            = Unmatched(LoadedRegions, NormalizedIds(LoadedScores))
       /\ loading.merge.lost_data
            = Unmatched(LoadedScores, NormalizedIds(LoadedRegions))

\* No identifier occurs twice in a frame, once normalized.
UniqueIds(frame) ==
    \A i, j \in 1..Len(frame.rows) :
       NormalizeId(frame.rows[i].region_id) = NormalizeId(frame.rows[j].region_id)
          => i = j

\* C25 for sources in which no identifier occurs twice.
C25_IdentifierMergeUniqueIds ==
    (MergedBoth /\ "region_id" \in datafiles.geojson.columns
       /\ UniqueIds(LoadedRegions) /\ UniqueIds(LoadedScores))
    => /\ {loading.merge.frame.rows[i].region_id :
               i \in 1..Len(loading.merge.frame.rows)}
            = NormalizedIds(LoadedRegions) \cap NormalizedIds(LoadedScores)
       /\ loading.merge.lost_geom
            = Unmatched(LoadedRegions, NormalizedIds(LoadedScores))
       /\ loading.merge.lost_data
            = Unmatched(LoadedScores, NormalizedIds(LoadedRegions))

\* C25's case without a repeated identifier: ' mupw' of the features and
\* 'mupw ' of the scores are the one region MUPW of the result.
C25_WitnessUniqueIds ==
    /\ loading.op = "merge_data"
    /\ "region_id" \in datafiles.geojson.columns
    /\ UniqueIds(LoadedRegions) /\ UniqueIds(LoadedScores)
    /\ Len(LoadedRegions.rows) = 2
    /\ Len(loading.merge.frame.rows) = 1
    /\ loading.merge.frame.rows[1].region_id = <<"M", "U", "P", "W">>
    /\ loading.merge.lost_geom = 1

\* A source gave no row, or the merge gave none.
NothingMerged ==
    \/ Len(LoadedRegions.rows) = 0
    \/ Len(LoadedScores.rows) = 0
    \/ Len(loading.merge.frame.rows) = 0

\* C26: when a source gives no usable row or the merge gives no row,
\* merge_data fails with an error and load_base_data hands no frame to
\* calculate_resilience_batch.
C26_EmptyMergeFails ==
    (loading.op = "load_base_data" /\ NothingMerged)
    => /\ loading.merge.raised # None
       /\ loading.given = NoFrame

\* C26, what the code does in these cases: merge_data returns a frame
\* without rows, load_base_data hands it to calculate_resilience_batch and
\* returns None or a frame without rows.
C26_EmptyMergeGivesNoRows ==
    (loading.op = "load_base_data" /\ NothingMerged)
    => /\ loading.merge.raised = None
       /\ loading.given = loading.merge.frame
       /\ Len(loading.given.rows) = 0
       /\ \/ loading.caught = "ValueError" /\ loading.value = NoFrame
          \/ loading.caught = None /\ loading.value.live
                /\ Len(loading.value.rows) = 0

(* ----------------------- claims on the assistants --------------------- *)

\* The last get_advice_for_location call looked a region up.
LookedUp == advisor.calls > 0 /\ advisor.call.region.raised = None

\* The last call found the score record of the region and went on.
Found == LookedUp /\ advisor.call.region.value.found

\* The computed distance from the last call's location to entry i of the
\* advisor's coordinates.
DistTo(i) ==
    Cdist(advisor.call.lat, advisor.call.lon,
          advisor.region_coords[i].lat, advisor.region_coords[i].lon)

\* The same distance squared, exactly, in units of 10^-8 square degree.
ExactSquareTo(i) ==
    LET Abs(x) == IF x < 0 THEN -x ELSE x
        d_lat == WFromNat(Abs(advisor.call.lat - advisor.region_coords[i].lat))
        d_lon == WFromNat(Abs(advisor.call.lon - advisor.region_coords[i].lon))
    IN WAdd(WMul(d_lat, d_lat), WMul(d_lon, d_lon))

\* The first row of the records the last call read with the id given.
SeenRow(region_id) ==
    advisor.call.seen[CHOOSE i \in 1..Len(advisor.call.seen) :
                         /\ advisor.call.seen[i].region_id = region_id
                         /\ \A j \in 1..(i - 1) :
                               advisor.call.seen[j].region_id # region_id]

\* C21: _find_nearest_region selects the entry of the coordinates whose
\* computed distance to the location is the smallest, the first of them in
\* the table's order when several computed distances are equal; that entry
\* is one of the nearest in exact arithmetic too; the value returned is the
\* score record of its region; and a location that is an entry's coordinate
\* selects that entry, at the distance 0.
C21_NearestByComputedDistance ==
    LookedUp =>
       LET n == advisor.call.region.nearest
           entries == 1..Len(advisor.region_coords)
       IN /\ n \in entries
          /\ \A i \in entries : ~ WLess(DistTo(i), DistTo(n))
          /\ \A i \in 1..(n - 1) : WLess(DistTo(n), DistTo(i))
          /\ \A i \in entries : ~ WLess(ExactSquareTo(i), ExactSquareTo(n))
          /\ \A i \in entries :
                (/\ advisor.region_coords[i].lat = advisor.call.lat
                 /\ advisor.region_coords[i].lon = advisor.call.lon)
                => n = i /\ DistTo(n) = WZero
          /\ Found =>
                LET v == advisor.call.region.value
                    row == SeenRow(v.region_id)
                IN /\ v.region_id = advisor.region_coords[n].region_id
                   /\ v.region_name = row.region_name
                   /\ v.exposure = row.exposure
                   /\ v.vulnerability = row.vulnerability
                   /\ v.adaptation = row.adaptation
                   /\ v.resilience_index = row.resilience_index

\* C21 as stated: the entry selected is the first, in the table's order, of
\* the entries at the smallest exact distance.
C21_NearestFirstOfEquallyNear ==
    LookedUp =>
       LET n == advisor.call.region.nearest
           entries == 1..Len(advisor.region_coords)
       IN /\ \A i \in entries : ~ WLess(ExactSquareTo(i), ExactSquareTo(n))
          /\ \A i \in 1..(n - 1) : WLess(ExactSquareTo(n), ExactSquareTo(i))

\* A region was found where another entry is at the same computed distance
\* as the entry selected.
C21_Witness ==
    /\ Found
    /\ \E i \in 1..Len(advisor.region_coords) :
          /\ i # advisor.call.region.nearest
          /\ DistTo(i) = DistTo(advisor.call.region.nearest)

C22_MissingRecordGivesNone ==
    (/\ LookedUp
     /\ \A i \in 1..Len(advisor.call.seen) :
           advisor.call.seen[i].region_id
              # advisor.region_coords[advisor.call.region.nearest].region_id)
    => /\ ~ advisor.call.region.value.found
       /\ advisor.pc = "done"
       /\ advisor.call.raised = None
       /\ advisor.call.value = GenerateGenericAdvice(advisor.call.disaster_type)

\* The rows that qualify as safe zones for the last call: a score of 60 or
\* more, another region than the one found, and coordinates to measure the
\* distance from.
Qualifying ==
    {i \in 1..Len(advisor.call.seen) :
        /\ advisor.call.seen[i].resilience_index >= SafeFrom * HundredthsPerUnit
        /\ advisor.call.seen[i].region_id # advisor.call.region.value.region_id
        /\ \E k \in 1..Len(advisor.region_coords) :
              advisor.region_coords[k].region_id = advisor.call.seen[i].region_id}

\* The kilometres from the last call's location to the region of row i.
KmTo(i) ==
    LET k == CHOOSE k \in 1..Len(advisor.region_coords) :
                advisor.region_coords[k].region_id = advisor.call.seen[i].region_id
    IN DistKm(DistTo(k))

\* C23: _find_safe_zones returns at most top_n zones, each of a qualifying
\* row with its distance in kilometres (the degrees times 111), in the
\* order of non-decreasing distance; no qualifying row left out is nearer
\* than a zone returned; and without a qualifying row the list is empty and
\* nothing is raised.
C23_SafeZonesRanked ==
    Found =>
       LET zones == advisor.call.safe_zones
       IN /\ Len(zones) <= TopN
          /\ Len(zones) = Min(TopN, Cardinality(Qualifying))
          /\ \A k \in 1..Len(zones) :
                /\ zones[k].resilience_index >= SafeFrom * HundredthsPerUnit
                /\ zones[k].region_id # advisor.call.region.value.region_id
                /\ \E i \in Qualifying :
                      /\ advisor.call.seen[i].region_id = zones[k].region_id
                      /\ advisor.call.seen[i].resilience_index = zones[k].resilience_index
                      /\ KmTo(i) = zones[k].distance_km
          /\ \A k \in 1..(Len(zones) - 1) :
                ~ WLess(zones[k + 1].distance_km, zones[k].distance_km)
          /\ \A i \in Qualifying :
                (\A k \in 1..Len(zones) :
                    zones[k].region_id # advisor.call.seen[i].region_id)
                => \A k \in 1..Len(zones) : ~ WLess(KmTo(i), zones[k].distance_km)
          /\ Qualifying = {} => zones = <<>> /\ advisor.call.region.raised = None

\* top_n zones were returned and a qualifying row was left out.
C23_Witness ==
    /\ Found
    /\ Len(advisor.call.safe_zones) = TopN
    /\ \E i \in Qualifying :
          \A k \in 1..Len(advisor.call.safe_zones) :
             advisor.call.safe_zones[k].region_id # advisor.call.seen[i].region_id

\* The fallback of the last get_advice_for_location call, from the records
\* the call read and its arguments alone.
FallbackOfRecords ==
    LET c == advisor.call
        self == [region_coords |-> advisor.region_coords,
                 resilience_data |-> [live |-> TRUE, cols |-> {}, rows |-> c.seen]]
        region_data == FindNearestRegion(self, c.lat, c.lon).value
        risk == RiskOf(region_data.resilience_index, c.cyclone_severity)
    IN GenerateFallbackAdvice(region_data, c.disaster_type, risk.risk_level,
                              FindSafeZones(self, c.lat, c.lon, region_data.region_id),
                              risk.immediate_action)

\* The fallback of the last generate_security_advice call, from the
\* records of the report and the region asked for alone.
FallbackOfReport ==
    LET Of(row) == row.region_id = reporter.last.region_id
        data == IF reporter.last.region_id # None
                THEN SelectSeq(reporter.resilience_data, Of)
                ELSE reporter.resilience_data
    IN GenerateFallbackReport(PrepareContext(data), reporter.last.region_id)

\* The service raised, or replied what json.loads rejects.
Failed(reply) == reply.kind \in {"raises", "unparsable"}

\* C27: when the service raises or its reply cannot be parsed,
\* get_advice_for_location and generate_security_advice raise nothing and
\* return the fallback, which the records and the call's arguments
\* determine.
C27_FallbackOnServiceFailure ==
    /\ (advisor.pc = "done" /\ Found /\ Failed(advisor.call.reply))
       => /\ advisor.call.raised = None
          /\ advisor.call.value = FallbackOfRecords
    /\ (reporter.last.made /\ Failed(reporter.last.reply)
        /\ reporter.last.value.source # "error")
       => /\ reporter.last.raised = None
          /\ reporter.last.value = FallbackOfReport

\* The service replied a text that is no JSON and the advice names the safe
\* zones found.
C27_Witness ==
    /\ advisor.pc = "done"
    /\ Found
    /\ advisor.call.reply.kind = "unparsable"
    /\ advisor.call.value.source = "fallback"
    /\ advisor.call.safe_zones # <<>>

\* The same for a report: no JSON in the reply, and the fallback returned.
C27_ReportWitness ==
    /\ reporter.last.made
    /\ reporter.last.reply.kind = "unparsable"
    /\ reporter.last.value.source = "fallback"

\* C29: a call of get_advice_for_location with the severity s reads, of
\* every region, the exposure loaded at construction plus 0.5 s, clipped to
\* [0, 100]; and a call after one with the same location and severity reads
\* the same resilience_index of every region.
C29_CallsReadBaseExposure ==
    LookedUp =>
       /\ Len(advisor.call.seen) = Len(advisor.base)
       /\ \A i \in 1..Len(advisor.base) :
             advisor.call.seen[i].exposure
                = ClipHalves(advisor.base[i].exposure
                             + ImpactHalves(advisor.call.cyclone_severity))
       /\ (/\ advisor.prev.made
           /\ advisor.prev.lat = advisor.call.lat
           /\ advisor.prev.lon = advisor.call.lon
           /\ advisor.prev.cyclone_severity = advisor.call.cyclone_severity)
          => \A i \in 1..Len(advisor.base) :
                advisor.call.seen[i].resilience_index
                   = advisor.prev.seen[i].resilience_index

\* The first call of an advisor does read the exposures loaded plus 0.5 s.
C29_FirstCallReadsBaseExposure ==
    (LookedUp /\ advisor.calls = 1) =>
       \A i \in 1..Len(advisor.base) :
          advisor.call.seen[i].exposure
             = ClipHalves(advisor.base[i].exposure
                          + ImpactHalves(advisor.call.cyclone_severity))

====
